---- MODULE Spec2Model ----
(***************************************************************************)
(* The capability-delegation and revocation engine of packages/core and    *)
(* the security handlers of packages/ui/src/App.tsx that drive it.         *)
(*                                                                         *)
(* trim(), the did:key pattern, JSON.stringify and the FNV-1a fingerprint  *)
(* are computed character by character, as the code computes them.         *)
(***************************************************************************)
EXTENDS Integers, Sequences, FiniteSets, TLC

VARIABLES
    identity,                  \* App: IdentityRecord or Null
    delegation,                \* App: UcanDelegationRecord or Null
    revocationQueue,           \* App: OfflineRevocationEntry[]
    revocationList,            \* App: RevocationListRecord
    trustedRevocationIssuers,  \* App: string[]
    auditLog,                  \* App: SecurityAuditEntry[]
    failedFlushQueue,          \* App: FailedRevocationRetry[]
    safeReplayOnly,            \* App: boolean
    unsafeReplayConfirmArmed,  \* App: boolean
    unsafeReplayOverrideUntil, \* App: number or Null
    timeTick,                  \* App: the clock value of the last interval tick
    hasTauriRuntime,           \* whether "__TAURI_INTERNALS__" is in window
    inFlight,                  \* Replay Revocations handlers suspended at their await
    now,                       \* Date.now()
    clockMoves,                \* how often the clock has advanced
    obs,                       \* what the last operation was given and returned
    hist,                      \* history: what the flush collaborator has been sent and answered
    posts                      \* App: FeedItem[]

vars == <<identity, delegation, revocationQueue, revocationList, trustedRevocationIssuers,
          auditLog, failedFlushQueue, safeReplayOnly, unsafeReplayConfirmArmed,
          unsafeReplayOverrideUntil, timeTick, hasTauriRuntime, inFlight, now, clockMoves,
          obs, hist, posts>>

(***************************************************************************)
(* Strings.  A JavaScript string is a TLA+ string; Len, SubSeq and \o read *)
(* and build it character by character.  A value that may be null is a     *)
(* sequence of at most one element: Null, or Some(v).                      *)
(***************************************************************************)
Null == <<>>

Some(v) == <<v>>

\* the characters with codes 32..95 and 97..126
PrintableLow == " !\"#$%&'()*+,-./0123456789:;<=>?@ABCDEFGHIJKLMNOPQRSTUVWXYZ[\\]^_"

PrintableHigh == "abcdefghijklmnopqrstuvwxyz{|}~"

CharCode ==
    [c \in {SubSeq(PrintableLow, i, i) : i \in 1..Len(PrintableLow)}
           \cup {SubSeq(PrintableHigh, i, i) : i \in 1..Len(PrintableHigh)} |->
        IF \E i \in 1..Len(PrintableLow) : SubSeq(PrintableLow, i, i) = c
        THEN 31 + (CHOOSE i \in 1..Len(PrintableLow) : SubSeq(PrintableLow, i, i) = c)
        ELSE 96 + (CHOOSE i \in 1..Len(PrintableHigh) : SubSeq(PrintableHigh, i, i) = c)]

charAt(value, i) == SubSeq(value, i, i)

charCodeAt(value, i) == CharCode[charAt(value, i)]

Digits == "0123456789"

HexDigits == "0123456789abcdef"

Base36Digits == "0123456789abcdefghijklmnopqrstuvwxyz"

Base58Alphabet == "123456789ABCDEFGHJKLMNPQRSTUVWXYZabcdefghijkmnopqrstuvwxyz"

Base58Chars == {SubSeq(Base58Alphabet, i, i) : i \in 1..Len(Base58Alphabet)}

RECURSIVE TrimStart(_, _), TrimEnd(_, _)
\* the first and the last position of s that holds no whitespace; the space is the only
\* whitespace character of the model
TrimStart(s, i) == IF i > Len(s) \/ charAt(s, i) # " " THEN i ELSE TrimStart(s, i + 1)

TrimEnd(s, i) == IF i < 1 \/ charAt(s, i) # " " THEN i ELSE TrimEnd(s, i - 1)

\* String.prototype.trim
trim(s) ==
    LET from == TrimStart(s, 1)
        to == TrimEnd(s, Len(s))
    IN  IF from > to THEN "" ELSE SubSeq(s, from, to)

\* Number.prototype.toString(10) of a non-negative integer
RECURSIVE toDecimal(_)
toDecimal(n) ==
    IF n < 10 THEN charAt(Digits, n + 1) ELSE toDecimal(n \div 10) \o charAt(Digits, (n % 10) + 1)

\* JSON.stringify of a string: quoted, with the quote and the backslash escaped
RECURSIVE JsonEscape(_, _)
JsonEscape(s, i) ==
    IF i > Len(s) THEN ""
    ELSE (IF charAt(s, i) \in {"\"", "\\"} THEN "\\" \o charAt(s, i) ELSE charAt(s, i))
         \o JsonEscape(s, i + 1)

JsonString(s) ==
    IF \A i \in 1..Len(s) : charAt(s, i) \notin {"\"", "\\"} THEN "\"" \o s \o "\""
    ELSE "\"" \o JsonEscape(s, 1) \o "\""

(***************************************************************************)
(* Bounds of the model and constants of the program                        *)
(***************************************************************************)
MaxUcans == 1        \* delegations created in one run, each with a fresh revocationId

MaxInFlight == 1     \* Replay Revocations handlers waiting for their flush at once

MaxClockMoves == 1   \* how often the clock advances in one run

MaxAudit == 1        \* audit entries recorded before Clear Audit must come

ReplayMaxBatch == 50

AuditMaxEntries == 120

UcanTtlSeconds == 3600

TickIntervalMs == 30000

DefaultBaseDelayMs == 30000

\* the random values the handlers of App draw
IdentityDid == "did:key:z6MkAmy1234567"

AudienceDid == "did:key:z6MkBob1234567"

\* createRevocationId: the text of the k-th id drawn, never drawn before
FreshRevocationId(k) == "revoke-" \o toDecimal(k)

RevocationIds == {FreshRevocationId(k) : k \in 1..MaxUcans}

\* the inputs of the calls made on a revocation list on its own
MaxLedgerEntries == 2   \* entries a list may hold

LedgerIds == {"revoke-a", " revoke-b "}

LedgerReasons == {" lost ", "forged"}

\* the reasons written into the stored text: one that differs and one that does not
ForgedReasons == {"forged", "lost "}

LedgerTimes == {1000, 2000}

LedgerIssuers == {IdentityDid, " " \o IdentityDid \o " "}

LedgerTrusted == {<<AudienceDid>>, <<AudienceDid, IdentityDid \o " ">>}

GrantIds == {" revoke-a "}

GrantTtlSeconds == 60

\* the arguments of the calls of createUcanDelegation made on its own: issuer and
\* audience, capabilities, ttlSeconds (Null where it is omitted; LargeTtlSeconds is the
\* largest the model reaches in milliseconds), issuedAt and revocationId
IssueDids ==
    {<<IdentityDid, AudienceDid>>, <<"did:web:amy", AudienceDid>>, <<IdentityDid, "bob">>}

IssueCapabilities ==
    {<<>>, <<[with |-> " " \o IdentityDid \o " ", can |-> "feed/publish"]>>,
     <<[with |-> IdentityDid, can |-> "  "]>>}

LargeTtlSeconds == 2000000

IssueTtls == {Null, Some(30), Some(59), Some(60), Some(LargeTtlSeconds), Some(40000000)}

IssueTimes == {0, 1000}

\* the arguments of the expiry questions: expiresAt, thresholdMs (300000 is the default)
\* and now, around the expiry instant and the threshold before it
ExpiryTimes == {60000, 360000}

ExpiryThresholds == {0, 1, 300000}

ExpiryClock == {0, 59998, 59999, 60000, 60001, 360000, 360001}

IssueRevocationIds == {" revoke-a ", "  "}

Nonces == {"nonce-a", "nonce-b"}


\* the inputs of the calls made on an offline queue on its own
MaxEnqueues == 3        \* calls of enqueueOfflineRevocation in one run

QueueIds == {"revoke-a", " revoke-a ", "revoke-b"}

QueueReasons == {"manual profile revoke", "auto revoke on expiry"}

QueueTimes == {1000, 2000}

ReplayBatches == {-1, 0, 1, 2, ReplayMaxBatch}

\* the inputs of the calls made on a list of failed-flush retries on its own
MaxRetryCount == 3      \* the retryCount up to which failures are recorded

RetryIdLists ==
    {<<"revoke-a">>, <<"revoke-b", " revoke-a ">>, <<"revoke-a", "revoke-a">>,
     <<" ", "revoke-b">>}

RetryTimes == {1000, 2000}

RetryBaseDelays == {10000, DefaultBaseDelayMs}

\* what the composer is given
MaxPosts == 1           \* posts published in one run

Drafts == {" hello ", "  "}

ActiveTab == "main"

\* what the audit log on its own is given
MaxAppends == 4         \* calls of appendSecurityAuditEntry in one run

AuditLimits == {1, 2, 3}

AuditEvents == {"ucan.created", "ucan.revoked"}

AuditDetails == {" opened ", "closed"}

AuditEntropies == {"Zx9", "4Kp"}

(***************************************************************************)
(* fnv1aHex: 32-bit FNV-1a, the hash kept as two 16-bit halves so that     *)
(* Math.imul's wrap-around at 2^32 is exact.                               *)
(***************************************************************************)
RECURSIVE XorBits(_, _, _)
XorBits(a, b, n) ==
    IF n = 0 THEN 0 ELSE ((a + b) % 2) + 2 * XorBits(a \div 2, b \div 2, n - 1)

XorByte == [a \in 0..255 |-> [b \in 0..127 |-> XorBits(a, b, 8)]]

\* hash ^= code (code < 128), hash = Math.imul(hash, 0x01000193)
FnvStep(h, code) ==
    LET lo == (h[2] \div 256) * 256 + XorByte[h[2] % 256][code]
        p  == lo * 403
    IN  <<(h[1] * 403 + lo * 256 + (p \div 65536)) % 65536, p % 65536>>

RECURSIVE FnvFold(_, _, _, _)
\* the loop over value[from..to], in halves; the test on left has TLC compute the
\* left half before it starts on the right one
FnvFold(h, value, from, to) ==
    IF from > to THEN h
    ELSE IF from = to THEN FnvStep(h, charCodeAt(value, from))
    ELSE LET mid == (from + to) \div 2
             left == FnvFold(h, value, from, mid)
         IN  IF left[1] >= 0 THEN FnvFold(left, value, mid + 1, to) ELSE left

Hex4(n) ==
    charAt(HexDigits, (n \div 4096) + 1) \o charAt(HexDigits, ((n \div 256) % 16) + 1)
    \o charAt(HexDigits, ((n \div 16) % 16) + 1) \o charAt(HexDigits, (n % 16) + 1)

\* 0x811c9dc5 is <<33052, 40389>>
fnv1aHex(value) ==
    LET h == FnvFold(<<33052, 40389>>, value, 1, Len(value)) IN Hex4(h[1]) \o Hex4(h[2])

(***************************************************************************)
(* packages/core/src/index.ts: identity ids                                *)
(***************************************************************************)
\* /^did:key:z[1-9A-HJ-NP-Za-km-z]{10,}$/
isValidDidKey(did) ==
    /\ Len(did) >= 19
    /\ SubSeq(did, 1, 9) = "did:key:z"
    /\ \A i \in 10..Len(did) : charAt(did, i) \in Base58Chars

\* did.length <= 24 ? did : did.slice(0, 18) + "..." + did.slice(-6)
formatDidHandle(did) ==
    IF Len(did) <= 24 THEN did
    ELSE SubSeq(did, 1, 18) \o "..." \o SubSeq(did, Len(did) - 5, Len(did))

\* a non-negative integer in at least width decimal digits (String.prototype.padStart)
RECURSIVE padStart(_, _)
padStart(text, width) == IF Len(text) >= width THEN text ELSE padStart("0" \o text, width)

\* Date.prototype.toISOString of a time within the first day of the epoch
toISOString(ms) ==
    "1970-01-01T" \o padStart(toDecimal(ms \div 3600000), 2)
    \o ":" \o padStart(toDecimal((ms \div 60000) % 60), 2)
    \o ":" \o padStart(toDecimal((ms \div 1000) % 60), 2)
    \o "." \o padStart(toDecimal(ms % 1000), 3) \o "Z"

\* did is "did:key:z" and the base-58 text of 34 random bytes: the model draws it
createIdentityRecord(did, timestamp) == [did |-> did, createdAt |-> toISOString(timestamp)]

(***************************************************************************)
(* packages/core/src/index.ts: delegations                                 *)
(***************************************************************************)
normalizeCapabilityThrows(capability) ==
    Len(trim(capability.with)) = 0 \/ Len(trim(capability.can)) = 0

normalizeCapability(capability) ==
    [with |-> trim(capability.with), can |-> trim(capability.can)]

\* a createUcanDelegation that does not look at the audience
createUcanDelegationThrowsIssuerOnly(issuerDid, audienceDid, capabilities, ttlSeconds, revocationId) ==
    \/ ~isValidDidKey(issuerDid)
    \/ Len(capabilities) = 0
    \/ ttlSeconds < 60 \/ ttlSeconds > 31536000
    \/ \E i \in 1..Len(capabilities) : normalizeCapabilityThrows(capabilities[i])
    \/ Len(trim(revocationId)) = 0

\* the throw statements of createUcanDelegation, in its order
createUcanDelegationThrows(issuerDid, audienceDid, capabilities, ttlSeconds, revocationId) ==
    \/ ~isValidDidKey(issuerDid) \/ ~isValidDidKey(audienceDid)
    \/ Len(capabilities) = 0
    \/ ttlSeconds < 60 \/ ttlSeconds > 31536000
    \/ \E i \in 1..Len(capabilities) : normalizeCapabilityThrows(capabilities[i])
    \/ Len(trim(revocationId)) = 0

\* params.ttlSeconds ?? 3600
DefaultTtlSeconds == 3600

ttlSecondsOrDefault(ttlSeconds) == IF ttlSeconds = Null THEN DefaultTtlSeconds ELSE ttlSeconds[1]

\* a grant whose lifetime is counted in seconds
createUcanDelegationInSeconds(issuerDid, audienceDid, capabilities, ttlSeconds, issuedAt, revocationId, nonce) ==
    [issuerDid |-> issuerDid,
     audienceDid |-> audienceDid,
     capabilities |-> [i \in 1..Len(capabilities) |-> normalizeCapability(capabilities[i])],
     issuedAt |-> issuedAt,
     expiresAt |-> issuedAt + ttlSeconds,
     revocationId |-> trim(revocationId),
     nonce |-> nonce,
     version |-> "1.1"]

\* revocationId is the given one or createRevocationId's random text, nonce is random
createUcanDelegation(issuerDid, audienceDid, capabilities, ttlSeconds, issuedAt, revocationId, nonce) ==
    [issuerDid |-> issuerDid,
     audienceDid |-> audienceDid,
     capabilities |-> [i \in 1..Len(capabilities) |-> normalizeCapability(capabilities[i])],
     issuedAt |-> issuedAt,
     expiresAt |-> issuedAt + ttlSeconds * 1000,
     revocationId |-> trim(revocationId),
     nonce |-> nonce,
     version |-> "1.1"]

\* a grant that expires only after its expiry instant
isUcanDelegationExpiredAfter(grant, at) == at > grant.expiresAt

\* a variant of isUcanDelegationExpired that answers one timer interval late
isUcanDelegationExpiredOneTickLate(grant, at) == at >= grant.expiresAt + TickIntervalMs

isUcanDelegationExpired(grant, at) == at >= grant.expiresAt

getUcanRemainingMs(grant, at) == grant.expiresAt - at

isUcanDelegationExpiringSoon(grant, thresholdMs, at) ==
    LET remainingMs == getUcanRemainingMs(grant, at)
    IN  remainingMs > 0 /\ remainingMs <= thresholdMs

\* A value of JSON.parse is a record with one field, named by the kind of the value;
\* a property that the object does not have reads as Undefined
JsonStr(s) == [string |-> s]

JsonNum(n) == [number |-> n]

JsonArr(a) == [array |-> a]

JsonObj(o) == [object |-> o]

Undefined == [undefined |-> TRUE]

JsonNull == [null |-> TRUE]

\* typeof value === "string", typeof value === "number", Array.isArray(value)
IsString(value) == DOMAIN value = {"string"}

IsNumber(value) == DOMAIN value = {"number"}

IsArray(value) == DOMAIN value = {"array"}

\* typeof value === "object" && value !== null
isObject(value) == DOMAIN value \in {{"object"}, {"array"}}

\* parsed.key of a value that passed isObject: an array has none of the keys read
Property(value, key) ==
    IF DOMAIN value = {"object"} /\ key \in DOMAIN value.object THEN value.object[key]
    ELSE Undefined

\* JSON.stringify(delegation) of the grant, as the value JSON.parse reads back from it
serializeUcanDelegation(grant) ==
    [text |-> "json",
     value |-> JsonObj([issuerDid |-> JsonStr(grant.issuerDid),
                        audienceDid |-> JsonStr(grant.audienceDid),
                        capabilities |->
                            JsonArr([i \in 1..Len(grant.capabilities) |->
                                JsonObj([with |-> JsonStr(grant.capabilities[i].with),
                                         can |-> JsonStr(grant.capabilities[i].can)])]),
                        issuedAt |-> JsonNum(grant.issuedAt),
                        expiresAt |-> JsonNum(grant.expiresAt),
                        revocationId |-> JsonStr(grant.revocationId),
                        nonce |-> JsonStr(grant.nonce),
                        version |-> JsonStr(grant.version)])]

\* the capability of parseUcanDelegation's loop: Null where the loop returns null
parseCapability(capability) ==
    LET withRaw == Property(capability, "with")
        canRaw == Property(capability, "can")
        withValue == IF IsString(withRaw) THEN trim(withRaw.string) ELSE ""
        canValue == IF IsString(canRaw) THEN trim(canRaw.string) ELSE ""
    IN  IF ~isObject(capability) THEN Null
        ELSE IF Len(withValue) = 0 \/ Len(canValue) = 0 THEN Null
        ELSE Some([with |-> withValue, can |-> canValue])

\* parseUcanDelegation(raw): raw.text tells null or undefined, blank text and text that
\* JSON.parse rejects from the text whose JSON.parse is raw.value
parseUcanDelegation(raw) ==
    LET parsed == raw.value
        issuerRaw == Property(parsed, "issuerDid")
        audienceRaw == Property(parsed, "audienceDid")
        issuerDid == IF IsString(issuerRaw) THEN issuerRaw.string ELSE ""
        audienceDid == IF IsString(audienceRaw) THEN audienceRaw.string ELSE ""
        listed == Property(parsed, "capabilities")
        capabilities == [i \in 1..Len(listed.array) |-> parseCapability(listed.array[i])]
        issuedAt == Property(parsed, "issuedAt")
        expiresAt == Property(parsed, "expiresAt")
        revocationRaw == Property(parsed, "revocationId")
        nonceRaw == Property(parsed, "nonce")
        revocationId == IF IsString(revocationRaw) THEN trim(revocationRaw.string) ELSE ""
        nonce == IF IsString(nonceRaw) THEN trim(nonceRaw.string) ELSE ""
        version == Property(parsed, "version")
    IN  IF raw.text # "json" THEN Null
        ELSE IF ~isObject(parsed) THEN Null
        ELSE IF ~isValidDidKey(issuerDid) \/ ~isValidDidKey(audienceDid) THEN Null
        ELSE IF ~IsArray(listed) THEN Null
        ELSE IF \E i \in 1..Len(capabilities) : capabilities[i] = Null THEN Null
        ELSE IF Len(capabilities) = 0 THEN Null
        ELSE IF \/ ~IsNumber(issuedAt) \/ ~IsNumber(expiresAt)
                \/ expiresAt.number <= issuedAt.number
                \/ Len(revocationId) = 0
                \/ Len(nonce) = 0
                \/ ~(IsString(version) /\ version.string = "1.1")
             THEN Null
        ELSE Some([issuerDid |-> issuerDid,
                   audienceDid |-> audienceDid,
                   capabilities |-> [i \in 1..Len(capabilities) |-> capabilities[i][1]],
                   issuedAt |-> issuedAt.number,
                   expiresAt |-> expiresAt.number,
                   revocationId |-> revocationId,
                   nonce |-> nonce,
                   version |-> "1.1"])

(***************************************************************************)
(* Sequences of records, as the array methods of the code treat them       *)
(***************************************************************************)
RECURSIVE SelectSeqBy(_, _)
\* Array.prototype.filter: the elements whose index is in keep, in order
SelectSeqBy(s, keep) ==
    IF Len(s) = 0 THEN <<>>
    ELSE SelectSeqBy(SubSeq(s, 1, Len(s) - 1), keep)
         \o (IF Len(s) \in keep THEN <<s[Len(s)]>> ELSE <<>>)

\* Array.prototype.slice(from, to) with 0-based from, exclusive to
slice(s, from, to) == SubSeq(s, from + 1, IF to > Len(s) THEN Len(s) ELSE to)

RECURSIVE StableSort(_, _)
\* Array.prototype.sort, which is stable: before[<<a, b>>] is comparator(a, b) < 0
StableSort(s, before) ==
    IF Len(s) = 0 THEN <<>>
    ELSE LET rest == StableSort(SubSeq(s, 1, Len(s) - 1), before)
             e == s[Len(s)]
             k == Cardinality({i \in 1..Len(rest) : ~before[<<e, rest[i]>>]})
         IN  SubSeq(rest, 1, k) \o <<e>> \o SubSeq(rest, k + 1, Len(rest))

\* (left, right) => right.revokedAt - left.revokedAt
SortByRevokedAtDesc(entries) ==
    StableSort(entries,
               [pair \in {<<entries[i], entries[j]>> : i, j \in 1..Len(entries)} |->
                   pair[1].revokedAt > pair[2].revokedAt])

\* (left, right) => left.nextRetryAt - right.nextRetryAt
SortByNextRetryAtAsc(entries) ==
    StableSort(entries,
               [pair \in {<<entries[i], entries[j]>> : i, j \in 1..Len(entries)} |->
                   pair[1].nextRetryAt < pair[2].nextRetryAt])

(***************************************************************************)
(* packages/core/src/index.ts: the offline revocation queue                *)
(***************************************************************************)
\* the two throw statements of createOfflineRevocationEntry
createOfflineRevocationEntryThrows(revocationId, reason) ==
    Len(trim(revocationId)) = 0 \/ Len(trim(reason)) = 0

createOfflineRevocationEntry(revocationId, reason, queuedAt) ==
    [revocationId |-> trim(revocationId), queuedAt |-> queuedAt, reason |-> trim(reason)]

\* a variant of enqueueOfflineRevocation in which the last entry enqueued for an id
\* takes the place of the one in the queue
enqueueOfflineRevocationLastWins(queue, entry) ==
    IF \E i \in 1..Len(queue) : queue[i].revocationId = entry.revocationId
    THEN [i \in 1..Len(queue) |->
             IF queue[i].revocationId = entry.revocationId THEN entry ELSE queue[i]]
    ELSE Append(queue, entry)

enqueueOfflineRevocation(queue, entry) ==
    IF \E i \in 1..Len(queue) : queue[i].revocationId = entry.revocationId
    THEN queue
    ELSE Append(queue, entry)

\* a variant of replayOfflineRevocations whose remaining starts one entry late
replayOfflineRevocationsSkipsOne(queue, maxBatch) ==
    LET safeBatch == IF maxBatch > 0 THEN maxBatch ELSE Len(queue)
    IN  [replayed |-> slice(queue, 0, safeBatch),
         remaining |-> slice(queue, safeBatch + 1, Len(queue))]

replayOfflineRevocations(queue, maxBatch) ==
    LET safeBatch == IF maxBatch > 0 THEN maxBatch ELSE Len(queue)
    IN  [replayed |-> slice(queue, 0, safeBatch), remaining |-> slice(queue, safeBatch, Len(queue))]

(***************************************************************************)
(* packages/core/src/index.ts: the revocation list                         *)
(***************************************************************************)
createRevocationList(updatedAt) ==
    [version |-> "1.1", updatedAt |-> updatedAt, issuerDid |-> Null, signature |-> Null,
     entries |-> <<>>]

\* the two throw statements of addRevocationListEntry
addRevocationListEntryThrows(revocationId, reason) ==
    Len(trim(revocationId)) = 0 \/ Len(trim(reason)) = 0

\* a variant of addRevocationListEntry that keeps the entry the list has for the id
addRevocationListEntryAppends(list, revocationId, reason, revokedAt) ==
    [version |-> "1.1", updatedAt |-> revokedAt, issuerDid |-> list.issuerDid,
     signature |-> Null,
     entries |-> SortByRevokedAtDesc(
         Append(list.entries, [revocationId |-> trim(revocationId), revokedAt |-> revokedAt,
                               reason |-> trim(reason)]))]

\* a variant of addRevocationListEntry that keeps the signature of the list it is given
addRevocationListEntryKeepsSignature(list, revocationId, reason, revokedAt) ==
    LET normalizedId == trim(revocationId)
        existing == SelectSeqBy(list.entries,
                        {i \in 1..Len(list.entries) : list.entries[i].revocationId # normalizedId})
    IN  [version |-> "1.1", updatedAt |-> revokedAt, issuerDid |-> list.issuerDid,
         signature |-> list.signature,
         entries |-> SortByRevokedAtDesc(
             Append(existing, [revocationId |-> normalizedId, revokedAt |-> revokedAt,
                               reason |-> trim(reason)]))]

\* a variant of addRevocationListEntry that keeps the signature where the id is listed
addRevocationListEntryKeepsSignatureOfListed(list, revocationId, reason, revokedAt) ==
    LET normalizedId == trim(revocationId)
        existing == SelectSeqBy(list.entries,
                        {i \in 1..Len(list.entries) : list.entries[i].revocationId # normalizedId})
    IN  [version |-> "1.1", updatedAt |-> revokedAt, issuerDid |-> list.issuerDid,
         signature |-> IF Len(existing) < Len(list.entries) THEN list.signature ELSE Null,
         entries |-> SortByRevokedAtDesc(
             Append(existing, [revocationId |-> normalizedId, revokedAt |-> revokedAt,
                               reason |-> trim(reason)]))]

\* a variant of addRevocationListEntry that keeps the new entry only
addRevocationListEntryLatestOnly(list, revocationId, reason, revokedAt) ==
    [version |-> "1.1",
     updatedAt |-> revokedAt,
     issuerDid |-> list.issuerDid,
     signature |-> Null,
     entries |-> <<[revocationId |-> trim(revocationId), revokedAt |-> revokedAt,
                    reason |-> trim(reason)]>>]

addRevocationListEntry(list, revocationId, reason, revokedAt) ==
    LET normalizedId == trim(revocationId)
        normalizedReason == trim(reason)
        existing == SelectSeqBy(list.entries,
                        {i \in 1..Len(list.entries) : list.entries[i].revocationId # normalizedId})
    IN  [version |-> "1.1",
         updatedAt |-> revokedAt,
         issuerDid |-> list.issuerDid,
         signature |-> Null,
         entries |-> SortByRevokedAtDesc(
             Append(existing, [revocationId |-> normalizedId, revokedAt |-> revokedAt,
                               reason |-> normalizedReason]))]

\* JSON.stringify of one entry, its keys in the order the code builds them
RECURSIVE JsonEntries(_, _)
JsonEntries(entries, i) ==
    IF i > Len(entries) THEN ""
    ELSE (IF i > 1 THEN "," ELSE "")
         \o "{\"revocationId\":" \o JsonString(entries[i].revocationId)
         \o ",\"revokedAt\":" \o toDecimal(entries[i].revokedAt)
         \o ",\"reason\":" \o JsonString(entries[i].reason) \o "}"
         \o JsonEntries(entries, i + 1)

\* a variant of createRevocationListSigningPayload that leaves the reasons out
createRevocationListSigningPayloadNoReason(list, issuerDid) ==
    "{\"version\":\"1.1\",\"updatedAt\":" \o toDecimal(list.updatedAt)
    \o ",\"issuerDid\":" \o JsonString(issuerDid)
    \o ",\"entries\":["
    \o JsonEntries([i \in 1..Len(list.entries) |-> [list.entries[i] EXCEPT !.reason = ""]], 1)
    \o "]}"

createRevocationListSigningPayload(list, issuerDid) ==
    LET entries == SortByRevokedAtDesc(list.entries)
    IN  "{\"version\":\"1.1\",\"updatedAt\":" \o toDecimal(list.updatedAt)
        \o ",\"issuerDid\":" \o JsonString(issuerDid)
        \o ",\"entries\":[" \o JsonEntries(entries, 1) \o "]}"

\* the amounts by which the clock of a run advances, and the times it can show
ClockSteps == {TickIntervalMs, UcanTtlSeconds * 1000}

RECURSIVE ClockValuesAfter(_)
ClockValuesAfter(n) ==
    IF n = 0 THEN {0}
    ELSE LET before == ClockValuesAfter(n - 1)
         IN  before \cup {t + step : t \in before, step \in ClockSteps}

ClockValues == ClockValuesAfter(MaxClockMoves)

\* the reasons with which the handlers of App call addRevocationListEntry
AppRevocationReasons ==
    {"manual profile revoke", "auto revoke on expiry", "manual verification marker",
     "flushed replay"}

\* the signing payloads of the lists of at most maxEntries of the given entries that
\* were last updated at one of the given times; a list that its own calls built was
\* last updated when one of its entries was revoked
SigningPayloads(Entries, Times, issuerDid, maxEntries, ownCalls) ==
    UNION {UNION {{createRevocationListSigningPayload(
                       [updatedAt |-> at, entries |-> entries], issuerDid) :
                   at \in IF ownCalls /\ n > 0 THEN {entries[i].revokedAt : i \in 1..n}
                          ELSE Times} :
                  entries \in [1..n -> Entries]} : n \in 0..maxEntries}

\* the payloads that the handlers of App sign, and those that the calls on a list on
\* its own and the edits of its stored text sign
AppSigningPayloads ==
    SigningPayloads([revocationId : RevocationIds, revokedAt : ClockValues,
                     reason : AppRevocationReasons], ClockValues, IdentityDid, MaxUcans, TRUE)

LedgerSigningPayloads ==
    SigningPayloads([revocationId : {trim(id) : id \in LedgerIds}, revokedAt : LedgerTimes,
                     reason : {trim(reason) : reason \in LedgerReasons \cup ForgedReasons}],
                    LedgerTimes \cup {0}, IdentityDid, MaxLedgerEntries, FALSE)

\* fnv1aHex is a pure function: its values on these payloads, computed once
Fnv1aHexTable ==
    [payload \in AppSigningPayloads \cup LedgerSigningPayloads |-> fnv1aHex(payload)]

fnv1aHexOnce(value) ==
    IF value \in DOMAIN Fnv1aHexTable THEN Fnv1aHexTable[value] ELSE fnv1aHex(value)

\* the throw statement of signRevocationList
signRevocationListThrows(issuerDid) == ~isValidDidKey(trim(issuerDid))

\* a variant of signRevocationList that signs the issuer as given, not trimmed
signRevocationListAsGiven(list, issuerDid) ==
    [version |-> "1.1", updatedAt |-> list.updatedAt, issuerDid |-> Some(trim(issuerDid)),
     signature |-> Some("sig-" \o fnv1aHex(createRevocationListSigningPayload(list, issuerDid))),
     entries |-> SortByRevokedAtDesc(list.entries)]

signRevocationList(list, issuerDid) ==
    LET normalizedIssuer == trim(issuerDid)
        payload == createRevocationListSigningPayload(list, normalizedIssuer)
    IN  [version |-> "1.1",
         updatedAt |-> list.updatedAt,
         issuerDid |-> Some(normalizedIssuer),
         signature |-> Some("sig-" \o fnv1aHexOnce(payload)),
         entries |-> SortByRevokedAtDesc(list.entries)]

\* !value for a value that is a string or null
Falsy(value) == value = Null \/ value[1] = ""

\* a variant of verifyRevocationListSignature that passes a list without a signature
verifyRevocationListSignatureUnsignedPasses(list) ==
    IF Len(list.entries) = 0 \/ Falsy(list.signature) THEN TRUE
    ELSE IF Falsy(list.issuerDid) THEN FALSE
    ELSE IF ~isValidDidKey(list.issuerDid[1]) THEN FALSE
    ELSE ("sig-" \o fnv1aHexOnce(createRevocationListSigningPayload(list, list.issuerDid[1])))
         = list.signature[1]

verifyRevocationListSignature(list) ==
    IF Len(list.entries) = 0 THEN TRUE
    ELSE IF Falsy(list.issuerDid) \/ Falsy(list.signature) THEN FALSE
    ELSE IF ~isValidDidKey(list.issuerDid[1]) THEN FALSE
    ELSE ("sig-" \o fnv1aHexOnce(createRevocationListSigningPayload(list, list.issuerDid[1])))
         = list.signature[1]

RECURSIVE Dedupe(_)
\* [...new Set(array)]: the first occurrence of each element, in order
Dedupe(s) ==
    IF Len(s) = 0 THEN <<>>
    ELSE LET front == Dedupe(SubSeq(s, 1, Len(s) - 1))
         IN  IF \E i \in 1..Len(front) : front[i] = s[Len(s)] THEN front
             ELSE Append(front, s[Len(s)])

\* the array that serializeTrustedDidList writes as JSON text
serializeTrustedDidList(trustedDidList) ==
    LET trimmed == [i \in 1..Len(trustedDidList) |-> trim(trustedDidList[i])]
    IN  Dedupe(SelectSeqBy(trimmed, {i \in 1..Len(trimmed) : isValidDidKey(trimmed[i])}))

\* parseTrustedDidList of the JSON text of an array of strings
parseTrustedDidList(parsed) ==
    LET trimmed == [i \in 1..Len(parsed) |-> trim(parsed[i])]
    IN  Dedupe(SelectSeqBy(trimmed, {i \in 1..Len(trimmed) : isValidDidKey(trimmed[i])}))

\* a variant of isRevocationListIssuerTrusted that asks for a trusted issuer also where
\* the list has no entries
isRevocationListIssuerTrustedAlsoEmpty(list, trustedDidList) ==
    IF Falsy(list.issuerDid) THEN FALSE
    ELSE IF ~isValidDidKey(list.issuerDid[1]) THEN FALSE
    ELSE LET trusted == parseTrustedDidList(serializeTrustedDidList(trustedDidList))
         IN  \E i \in 1..Len(trusted) : trusted[i] = list.issuerDid[1]

isRevocationListIssuerTrusted(list, trustedDidList) ==
    IF Len(list.entries) = 0 THEN TRUE
    ELSE IF Falsy(list.issuerDid) THEN FALSE
    ELSE IF ~isValidDidKey(list.issuerDid[1]) THEN FALSE
    ELSE LET trusted == parseTrustedDidList(serializeTrustedDidList(trustedDidList))
         IN  \E i \in 1..Len(trusted) : trusted[i] = list.issuerDid[1]

\* a variant of verifyRevocationListPolicy that looks at the issuer first
verifyRevocationListPolicyIssuerFirst(list, trustedDidList) ==
    IF ~isRevocationListIssuerTrusted(list, trustedDidList) THEN "untrusted-issuer"
    ELSE IF ~verifyRevocationListSignature(list) THEN "invalid-signature"
    ELSE "valid"

verifyRevocationListPolicy(list, trustedDidList) ==
    IF ~verifyRevocationListSignature(list) THEN "invalid-signature"
    ELSE IF ~isRevocationListIssuerTrusted(list, trustedDidList) THEN "untrusted-issuer"
    ELSE "valid"

\* JSON.stringify(list), as the value JSON.parse reads back from it
serializeRevocationList(list) ==
    [text |-> "json",
     value |-> JsonObj([version |-> JsonStr(list.version),
                        updatedAt |-> JsonNum(list.updatedAt),
                        issuerDid |-> IF list.issuerDid = Null THEN JsonNull
                                      ELSE JsonStr(list.issuerDid[1]),
                        signature |-> IF list.signature = Null THEN JsonNull
                                      ELSE JsonStr(list.signature[1]),
                        entries |->
                            JsonArr([i \in 1..Len(list.entries) |->
                                JsonObj([revocationId |-> JsonStr(list.entries[i].revocationId),
                                         revokedAt |-> JsonNum(list.entries[i].revokedAt),
                                         reason |-> JsonStr(list.entries[i].reason)])])])]

\* a loop that keeps no entry
parseRevocationListEntryNone(item) == Null

\* the entry of parseRevocationList's loop: Null where the loop continues
parseRevocationListEntry(item) ==
    LET idRaw == Property(item, "revocationId")
        revokedAt == Property(item, "revokedAt")
        reasonRaw == Property(item, "reason")
        revocationId == IF IsString(idRaw) THEN trim(idRaw.string) ELSE ""
        reason == IF IsString(reasonRaw) THEN trim(reasonRaw.string) ELSE ""
    IN  IF ~isObject(item) THEN Null
        ELSE IF Len(revocationId) = 0 \/ ~IsNumber(revokedAt) \/ Len(reason) = 0 THEN Null
        ELSE Some([revocationId |-> revocationId, revokedAt |-> revokedAt.number,
                   reason |-> reason])

\* parseRevocationList(raw): raw.text tells null or undefined, blank text and text that
\* JSON.parse rejects from the text whose JSON.parse is raw.value; at is Date.now()
parseRevocationList(raw, at) ==
    LET parsed == raw.value
        version == Property(parsed, "version")
        updatedAt == Property(parsed, "updatedAt")
        issuerRaw == Property(parsed, "issuerDid")
        signatureValue == Property(parsed, "signature")
        listed == Property(parsed, "entries")
        issuerDidRaw == IF IsString(issuerRaw) THEN trim(issuerRaw.string) ELSE ""
        issuerDid == IF Len(issuerDidRaw) > 0 THEN Some(issuerDidRaw) ELSE Null
        signatureRaw == IF IsString(signatureValue) THEN trim(signatureValue.string) ELSE ""
        signature == IF Len(signatureRaw) > 0 THEN Some(signatureRaw) ELSE Null
        entriesRaw == IF IsArray(listed) THEN listed.array ELSE <<>>
        read == [i \in 1..Len(entriesRaw) |-> parseRevocationListEntry(entriesRaw[i])]
        kept == SelectSeqBy(read, {i \in 1..Len(read) : read[i] # Null})
        entries == [i \in 1..Len(kept) |-> kept[i][1]]
    IN  IF raw.text # "json" THEN createRevocationList(at)
        ELSE IF ~isObject(parsed) THEN createRevocationList(at)
        ELSE IF ~(IsString(version) /\ version.string = "1.1") \/ ~IsNumber(updatedAt)
             THEN createRevocationList(at)
        ELSE IF issuerDid # Null /\ ~isValidDidKey(issuerDid[1]) THEN createRevocationList(at)
        ELSE [version |-> "1.1", updatedAt |-> updatedAt.number, issuerDid |-> issuerDid,
              signature |-> signature, entries |-> SortByRevokedAtDesc(entries)]

isRevocationListed(list, revocationId) ==
    LET normalizedId == trim(revocationId)
    IN  IF Len(normalizedId) = 0 THEN FALSE
        ELSE \E i \in 1..Len(list.entries) : list.entries[i].revocationId = normalizedId

\* a variant of verifyDelegationRevocation that looks at the expiry first
verifyDelegationRevocationExpiryFirst(grant, list, at) ==
    IF at >= grant.expiresAt THEN "expired"
    ELSE IF isRevocationListed(list, grant.revocationId) THEN "revoked"
    ELSE "active"

verifyDelegationRevocation(grant, list, at) ==
    IF isRevocationListed(list, grant.revocationId) THEN "revoked"
    ELSE IF at >= grant.expiresAt THEN "expired"
    ELSE "active"

(***************************************************************************)
(* packages/core/src/index.ts: failed-flush retries                        *)
(***************************************************************************)
\* the throw statements of createFailedRevocationRetry
createFailedRevocationRetryThrows(revocationId, retryCount, lastError) ==
    Len(trim(revocationId)) = 0 \/ retryCount < 1 \/ Len(trim(lastError)) = 0

createFailedRevocationRetry(revocationId, failedAt, retryCount, nextRetryAt, lastError) ==
    [revocationId |-> trim(revocationId), failedAt |-> failedAt, retryCount |-> retryCount,
     nextRetryAt |-> nextRetryAt, lastError |-> trim(lastError)]

\* Map.prototype.set on a Map of records keyed by revocationId, kept as the sequence
\* of its values in insertion order: a key already present keeps its place
MapSet(byId, entry) ==
    IF \E i \in 1..Len(byId) : byId[i].revocationId = entry.revocationId
    THEN [i \in 1..Len(byId) |->
             IF byId[i].revocationId = entry.revocationId THEN entry ELSE byId[i]]
    ELSE Append(byId, entry)

RECURSIVE MapOf(_)
\* new Map(current.map((entry) => [entry.revocationId, entry]))
MapOf(current) ==
    IF Len(current) = 0 THEN <<>>
    ELSE MapSet(MapOf(SubSeq(current, 1, Len(current) - 1)), current[Len(current)])

\* a variant of Math.max that answers its first argument
MaxAnswersFirst(a, b) == a

\* Math.max(1, retryCount)
Max(a, b) == IF a >= b THEN a ELSE b

RECURSIVE UpsertLoop(_, _, _, _, _)
\* the for loop of upsertFailedRevocationRetries over failedIds[1..n]
UpsertLoop(byId, failedIds, at, errorLabel, baseDelayMs) ==
    IF Len(failedIds) = 0 THEN byId
    ELSE LET before == UpsertLoop(byId, SubSeq(failedIds, 1, Len(failedIds) - 1), at,
                                  errorLabel, baseDelayMs)
             revocationId == trim(failedIds[Len(failedIds)])
             found == {i \in 1..Len(before) : before[i].revocationId = revocationId}
             retryCount == IF found # {} THEN before[CHOOSE i \in found : TRUE].retryCount + 1
                           ELSE 1
             retryDelay == baseDelayMs * Max(1, retryCount)
         IN  IF Len(revocationId) = 0 THEN before
             ELSE MapSet(before, createFailedRevocationRetry(revocationId, at, retryCount,
                                                             at + retryDelay, errorLabel))

\* upsertFailedRevocationRetries throws where createFailedRevocationRetry does
upsertFailedRevocationRetriesThrows(failedIds, errorLabel) ==
    /\ \E i \in 1..Len(failedIds) : Len(trim(failedIds[i])) > 0
    /\ Len(trim(errorLabel)) = 0

\* a variant of upsertFailedRevocationRetries that leaves the records in Map order
upsertFailedRevocationRetriesUnsorted(current, failedIds, at, errorLabel, baseDelayMs) ==
    UpsertLoop(MapOf(current), failedIds, at, errorLabel, baseDelayMs)

upsertFailedRevocationRetries(current, failedIds, at, errorLabel, baseDelayMs) ==
    SortByNextRetryAtAsc(UpsertLoop(MapOf(current), failedIds, at, errorLabel, baseDelayMs))

removeFailedRetries(current, flushedIds) ==
    IF Len(flushedIds) = 0 THEN current
    ELSE LET flushedSet == {trim(flushedIds[i]) : i \in 1..Len(flushedIds)} \ {""}
         IN  SelectSeqBy(current,
                         {i \in 1..Len(current) : current[i].revocationId \notin flushedSet})

splitReadyFailedRetries(current, at) ==
    [ready |-> SelectSeqBy(current, {i \in 1..Len(current) : current[i].nextRetryAt <= at}),
     pending |-> SelectSeqBy(current, {i \in 1..Len(current) : current[i].nextRetryAt > at})]

(***************************************************************************)
(* packages/core/src/index.ts: the security audit log                      *)
(***************************************************************************)
\* the id of an entry is random; the model leaves it out
\* Number.prototype.toString(36) of a non-negative integer
RECURSIVE toBase36(_)
toBase36(n) ==
    IF n < 36 THEN charAt(Base36Digits, n + 1)
    ELSE toBase36(n \div 36) \o charAt(Base36Digits, (n % 36) + 1)

\* entropy is encodeBase58(randomBytes(6))
createSecurityAuditEntry(event, detail, timestamp, entropy) ==
    [id |-> "audit-" \o toBase36(timestamp) \o "-" \o entropy,
     event |-> event, detail |-> trim(detail), timestamp |-> timestamp]

\* createSecurityAuditEntry throws for a blank detail
createSecurityAuditEntryThrows(detail) == Len(trim(detail)) = 0

\* a variant of appendSecurityAuditEntry that puts the entry last
appendSecurityAuditEntryAtEnd(current, entry, maxEntries) ==
    LET safeMax == IF maxEntries > 0 THEN maxEntries ELSE 100
    IN  slice(current \o <<entry>>, 0, safeMax)

appendSecurityAuditEntry(current, entry, maxEntries) ==
    LET safeMax == IF maxEntries > 0 THEN maxEntries ELSE 100
    IN  slice(<<entry>> \o current, 0, safeMax)

\* JSON.stringify(entries), as the value JSON.parse reads back from it
serializeSecurityAuditLog(entries) ==
    [text |-> "json",
     value |-> JsonArr([i \in 1..Len(entries) |->
                  JsonObj([id |-> JsonStr(entries[i].id),
                           event |-> JsonStr(entries[i].event),
                           detail |-> JsonStr(entries[i].detail),
                           timestamp |-> JsonNum(entries[i].timestamp)])])]

SecurityAuditEventTypes ==
    {"identity.created", "identity.cleared", "ucan.created", "ucan.revoked", "ucan.expired",
     "ucan.verified", "revocation.verified", "revocation.replayed"}

\* the entry of parseSecurityAuditLog's loop: Null where the loop continues
parseSecurityAuditEntry(item) ==
    LET idRaw == Property(item, "id")
        eventRaw == Property(item, "event")
        detailRaw == Property(item, "detail")
        timestamp == Property(item, "timestamp")
        id == IF IsString(idRaw) THEN trim(idRaw.string) ELSE ""
        event == IF IsString(eventRaw) THEN eventRaw.string ELSE ""
        detail == IF IsString(detailRaw) THEN trim(detailRaw.string) ELSE ""
    IN  IF ~isObject(item) THEN Null
        ELSE IF Len(id) = 0 \/ Len(detail) = 0 \/ ~IsNumber(timestamp) THEN Null
        ELSE IF event \notin SecurityAuditEventTypes THEN Null
        ELSE Some([id |-> id, event |-> event, detail |-> detail,
                   timestamp |-> timestamp.number])

\* parseSecurityAuditLog(raw): raw.text tells null or undefined, blank text and text
\* that JSON.parse rejects from the text whose JSON.parse is raw.value
parseSecurityAuditLog(raw) ==
    LET parsed == raw.value
        read == [i \in 1..Len(parsed.array) |-> parseSecurityAuditEntry(parsed.array[i])]
        kept == SelectSeqBy(read, {i \in 1..Len(read) : read[i] # Null})
    IN  IF raw.text # "json" THEN <<>>
        ELSE IF ~IsArray(parsed) THEN <<>>
        ELSE [i \in 1..Len(kept) |-> kept[i][1]]

(***************************************************************************)
(* packages/core/src/index.ts: posts                                       *)
(***************************************************************************)
createLocalCID(content, timestamp) ==
    "bafy" \o fnv1aHex(trim(content) \o "|" \o toDecimal(timestamp))

\* the entry of the draft is not part of the post that toFeedPost makes of it
createDraftPost(body, tag, timestamp) ==
    [cid |-> createLocalCID(trim(body), timestamp), body |-> trim(body), tag |-> tag,
     timestamp |-> timestamp]

toFeedPost(draftPost) ==
    [cid |-> draftPost.cid, body |-> draftPost.body, tag |-> draftPost.tag,
     timestamp |-> draftPost.timestamp]

prependFeedPost(current, post) == <<post>> \o current

\* DEFAULT_POSTS; their timestamps, 1700000000000 and later, are beyond the integers
\* of TLC and are set to 0
DefaultPosts ==
    <<[cid |-> "bafybeigd", body |-> "CIDFeed content sharing post", tag |-> "main",
       timestamp |-> 0],
      [cid |-> "bafybeih2", body |-> "Swarm update: private peers online", tag |-> "private",
       timestamp |-> 0],
      [cid |-> "bafybeiak", body |-> "OrbitDB sync in 642ms", tag |-> "discover",
       timestamp |-> 0],
      [cid |-> "bafybeip7", body |-> "Published immutable post CID", tag |-> "alerts",
       timestamp |-> 0]>>

(***************************************************************************)
(* packages/ui/src/App.tsx: the security state of App and its handlers.    *)
(* One action is one handler together with the effects its state changes   *)
(* trigger.                                                                *)
(***************************************************************************)
NoObservation == [op |-> "handler"]

NoFailures == [id \in RevocationIds |-> 0]

revocationListPolicyStatus == verifyRevocationListPolicy(revocationList, trustedRevocationIssuers)

unsafeReplayOverrideActive ==
    unsafeReplayOverrideUntil # Null /\ unsafeReplayOverrideUntil[1] > timeTick

\* the random part of the id of an entry is the same text in every entry the handlers
\* of App record: no handler reads the id
recordSecurityEvent(log, event, detail) ==
    appendSecurityAuditEntry(log, createSecurityAuditEntry(event, detail, now, "Zx9"),
                             AuditMaxEntries)

\* App without the effect that clears the confirmation
ArmedAfterEffectKeepsArmed(list, trusted, safeOnly, armed) == armed

\* the effect on [revocationListPolicyStatus, safeReplayOnly, unsafeReplayConfirmArmed]
ArmedAfterEffect(list, trusted, safeOnly, armed) ==
    IF ~armed THEN FALSE
    ELSE IF safeOnly THEN FALSE
    ELSE verifyRevocationListPolicy(list, trusted) # "valid"

CanRecord == Len(auditLog) < MaxAudit

ids(entries) == [i \in 1..Len(entries) |-> entries[i].revocationId]

\* the state of App before anything was stored or done, the history apart
FreshState ==
    /\ identity = Null
    /\ delegation = Null
    /\ revocationQueue = <<>>
    /\ revocationList = createRevocationList(0)
    /\ trustedRevocationIssuers = <<>>
    /\ auditLog = <<>>
    /\ failedFlushQueue = <<>>
    /\ posts = DefaultPosts
    /\ safeReplayOnly = TRUE
    /\ unsafeReplayConfirmArmed = FALSE
    /\ unsafeReplayOverrideUntil = Null
    /\ timeTick = 0
    /\ inFlight = <<>>
    /\ now = 0
    /\ clockMoves = 0
    /\ obs = NoObservation

\* the history of a run: the delegations created, the ids that entered the offline
\* queue, the ids that a flush answered as flushed, and for each id the retryCount
\* recorded at its last failed flush (0 when it has not failed since it was flushed),
\* whether the stored text of the list was edited, and whether the last observed Replay
\* Revocations click under a policy that is not "valid" went on by a confirmation
NoHistory ==
    [ucans |-> 0, enqueued |-> {}, flushed |-> {}, lastFailCount |-> NoFailures,
     edited |-> FALSE, confirmed |-> FALSE]

AppInit == FreshState /\ hist = NoHistory

Init == AppInit /\ hasTauriRuntime \in BOOLEAN

\* time passes: by a tick interval, or by the lifetime of a delegation
AdvanceClock ==
    /\ clockMoves < MaxClockMoves
    /\ \E step \in ClockSteps : now' = now + step
    /\ clockMoves' = clockMoves + 1
    /\ obs' = NoObservation
    /\ UNCHANGED <<identity, delegation, revocationQueue, revocationList,
                   trustedRevocationIssuers, auditLog, failedFlushQueue, safeReplayOnly,
                   unsafeReplayConfirmArmed, unsafeReplayOverrideUntil, timeTick,
                   hasTauriRuntime, posts, inFlight, hist>>

\* setInterval(() => setTimeTick(Date.now()), 30_000) and the effects on timeTick:
\* the override's expiry and the auto revoke of an expired delegation
Tick ==
    LET expired == delegation # Null /\ isUcanDelegationExpired(delegation[1], now)
        entry == createOfflineRevocationEntry(delegation[1].revocationId,
                                              "auto revoke on expiry", now)
        list == IF expired
                THEN addRevocationListEntry(revocationList, delegation[1].revocationId,
                                            "auto revoke on expiry", now)
                ELSE revocationList
    IN  /\ now > timeTick
        /\ expired => CanRecord
        /\ timeTick' = now
        /\ unsafeReplayOverrideUntil' =
               IF unsafeReplayOverrideUntil # Null /\ unsafeReplayOverrideUntil[1] <= now
               THEN Null ELSE unsafeReplayOverrideUntil
        /\ revocationQueue' = IF expired THEN enqueueOfflineRevocation(revocationQueue, entry)
                              ELSE revocationQueue
        /\ revocationList' = list
        /\ delegation' = IF expired THEN Null ELSE delegation
        /\ auditLog' = IF expired
                       THEN recordSecurityEvent(auditLog, "ucan.expired",
                                "delegation expired for "
                                \o formatDidHandle(delegation[1].audienceDid))
                       ELSE auditLog
        /\ unsafeReplayConfirmArmed' =
               ArmedAfterEffect(list, trustedRevocationIssuers, safeReplayOnly,
                                unsafeReplayConfirmArmed)
        /\ hist' = IF expired
                   THEN [hist EXCEPT !.enqueued = @ \cup {entry.revocationId}]
                   ELSE hist
        /\ obs' = NoObservation
        /\ UNCHANGED <<identity, trustedRevocationIssuers, failedFlushQueue, safeReplayOnly,
                       hasTauriRuntime, posts, inFlight, now, clockMoves>>

\* Create DID
CreateDid ==
    LET nextIdentity == createIdentityRecord(IdentityDid, now)
    IN  /\ CanRecord
        /\ identity' = Some(nextIdentity)
        /\ auditLog' = recordSecurityEvent(auditLog, "identity.created",
                           "did issued " \o formatDidHandle(nextIdentity.did))
        /\ obs' = NoObservation
        /\ UNCHANGED <<delegation, revocationQueue, revocationList, trustedRevocationIssuers,
                       failedFlushQueue, safeReplayOnly, unsafeReplayConfirmArmed,
                       unsafeReplayOverrideUntil, timeTick, hasTauriRuntime, posts, inFlight, now,
                       clockMoves, hist>>

\* Clear DID
ClearDid ==
    /\ CanRecord
    /\ identity' = Null
    /\ delegation' = Null
    /\ auditLog' = recordSecurityEvent(auditLog, "identity.cleared",
                                       "identity and delegation cleared")
    /\ obs' = NoObservation
    /\ UNCHANGED <<revocationQueue, revocationList, trustedRevocationIssuers,
                   failedFlushQueue, safeReplayOnly, unsafeReplayConfirmArmed,
                   unsafeReplayOverrideUntil, timeTick, hasTauriRuntime, posts, inFlight, now,
                   clockMoves, hist>>

\* Create UCAN
CreateUcan ==
    LET nextDelegation ==
            createUcanDelegation(identity[1].did, AudienceDid,
                                 <<[with |-> identity[1].did, can |-> "feed/publish"]>>,
                                 UcanTtlSeconds, now, FreshRevocationId(hist.ucans + 1), "nonce")
    IN  /\ identity # Null
        /\ hist.ucans < MaxUcans
        /\ CanRecord
        /\ delegation' = Some(nextDelegation)
        /\ auditLog' = recordSecurityEvent(auditLog, "ucan.created",
                           "delegated publish to " \o formatDidHandle(AudienceDid))
        /\ hist' = [hist EXCEPT !.ucans = @ + 1]
        /\ obs' = NoObservation
        /\ UNCHANGED <<identity, revocationQueue, revocationList, trustedRevocationIssuers,
                       failedFlushQueue, safeReplayOnly, unsafeReplayConfirmArmed,
                       unsafeReplayOverrideUntil, timeTick, hasTauriRuntime, posts, inFlight, now,
                       clockMoves>>

\* Revoke UCAN
RevokeUcan ==
    LET entry == createOfflineRevocationEntry(delegation[1].revocationId,
                                              "manual profile revoke", now)
        list == addRevocationListEntry(revocationList, delegation[1].revocationId,
                                       "manual profile revoke", now)
    IN  /\ delegation # Null
        /\ CanRecord
        /\ revocationQueue' = enqueueOfflineRevocation(revocationQueue, entry)
        /\ revocationList' = list
        /\ delegation' = Null
        /\ auditLog' = recordSecurityEvent(auditLog, "ucan.revoked",
                           "queued revoke for " \o formatDidHandle(delegation[1].audienceDid))
        /\ unsafeReplayConfirmArmed' =
               ArmedAfterEffect(list, trustedRevocationIssuers, safeReplayOnly,
                                unsafeReplayConfirmArmed)
        /\ hist' = [hist EXCEPT !.enqueued = @ \cup {entry.revocationId}]
        /\ obs' = NoObservation
        /\ UNCHANGED <<identity, trustedRevocationIssuers, failedFlushQueue, safeReplayOnly,
                       unsafeReplayOverrideUntil, timeTick, hasTauriRuntime, posts, inFlight, now,
                       clockMoves>>

\* Safe Replay Only: On/Off
ToggleSafeReplayOnly ==
    /\ safeReplayOnly' = ~safeReplayOnly
    /\ unsafeReplayConfirmArmed' = FALSE
    /\ obs' = NoObservation
    /\ UNCHANGED <<identity, delegation, revocationQueue, revocationList,
                   trustedRevocationIssuers, auditLog, failedFlushQueue,
                   unsafeReplayOverrideUntil, timeTick, hasTauriRuntime, posts, inFlight, now,
                   clockMoves, hist>>

\* Temporarily Allow Unsafe Replay (5m)
AllowUnsafeReplay ==
    LET overrideUntil == now + 5 * 60 * 1000
    IN  /\ CanRecord
        /\ unsafeReplayOverrideUntil' = Some(overrideUntil)
        /\ unsafeReplayConfirmArmed' = FALSE
        /\ auditLog' = recordSecurityEvent(auditLog, "revocation.verified",
                           "temporary unsafe replay override granted until "
                           \o toISOString(overrideUntil))
        /\ obs' = NoObservation
        /\ UNCHANGED <<identity, delegation, revocationQueue, revocationList,
                       trustedRevocationIssuers, failedFlushQueue, safeReplayOnly, timeTick,
                       hasTauriRuntime, posts, inFlight, now, clockMoves, hist>>

\* if (revocationList.entries.length > 0 && revocationListPolicyStatus !== "valid")
ReplayGated ==
    Len(revocationList.entries) > 0 /\ revocationListPolicyStatus # "valid"

\* a gate that turns no click away
ReplayDeniedNever == FALSE

\* if (safeReplayOnly && !unsafeReplayOverrideActive) { ...; return; }
ReplayDenied ==
    ReplayGated /\ safeReplayOnly /\ ~unsafeReplayOverrideActive

\* a gate that asks for no confirmation
ReplayArmingNever == FALSE

\* if (!safeReplayOnly && !unsafeReplayConfirmArmed) { setUnsafeReplayConfirmArmed(true); ...; return; }
ReplayArming ==
    ReplayGated /\ ~ReplayDenied /\ ~safeReplayOnly /\ ~unsafeReplayConfirmArmed

\* Replay Revocations, up to its await: the policy gate, the split of the queue and the
\* call of flushRevocationQueueCommand; obs tells the click apart where observed is TRUE
ReplayRevocationsClick(observed) ==
    LET gated == ReplayGated
        denied == ReplayDenied
        arming == ReplayArming
        result == replayOfflineRevocations(revocationQueue, ReplayMaxBatch)
    IN  /\ (denied \/ arming) => CanRecord
        /\ ~(denied \/ arming) /\ Len(result.replayed) > 0 => Len(inFlight) < MaxInFlight
        /\ auditLog' =
               IF denied
               THEN recordSecurityEvent(auditLog, "revocation.verified",
                        "unsafe replay denied (" \o revocationListPolicyStatus
                        \o ") due to safe replay mode")
               ELSE IF arming
               THEN recordSecurityEvent(auditLog, "revocation.verified",
                        "unsafe replay confirmation required (" \o revocationListPolicyStatus
                        \o ")")
               ELSE auditLog
        /\ unsafeReplayConfirmArmed' =
               IF denied THEN unsafeReplayConfirmArmed ELSE IF arming THEN TRUE ELSE FALSE
        /\ inFlight' = IF ~(denied \/ arming) /\ Len(result.replayed) > 0
                       THEN Append(inFlight, result)
                       ELSE inFlight
        /\ obs' = IF ~observed THEN NoObservation
                  ELSE [op |-> "replayClick", gated |-> gated, safeOnly |-> safeReplayOnly,
                        override |-> unsafeReplayOverrideActive,
                        armedBefore |-> unsafeReplayConfirmArmed,
                        afterConfirmed |-> hist.confirmed,
                        outcome |-> IF denied THEN "denied"
                                    ELSE IF arming THEN "armed"
                                    ELSE IF Len(result.replayed) = 0 THEN "empty"
                                    ELSE "issued"]
        /\ hist' = IF observed /\ gated
                   THEN [hist EXCEPT !.confirmed =
                            unsafeReplayConfirmArmed /\ ~denied /\ ~arming]
                   ELSE hist
        /\ UNCHANGED <<identity, delegation, revocationQueue, revocationList,
                       trustedRevocationIssuers, failedFlushQueue, safeReplayOnly,
                       unsafeReplayOverrideUntil, timeTick, hasTauriRuntime, posts, now,
                       clockMoves>>

ReplayRevocations == ReplayRevocationsClick(FALSE)

\* inFlight without its k-th element
Resumed(k) == SubSeq(inFlight, 1, k - 1) \o SubSeq(inFlight, k + 1, Len(inFlight))

\* Replay Revocations after its await, where invokeTauri returned null
ReplayWithoutRuntime ==
    \E k \in 1..Len(inFlight) :
        LET result == inFlight[k]
        IN  /\ ~hasTauriRuntime
            /\ CanRecord
            /\ revocationQueue' = result.remaining
            /\ auditLog' = recordSecurityEvent(auditLog, "revocation.replayed",
                               "replayed " \o toDecimal(Len(result.replayed))
                               \o " queued revoke(s)")
            /\ inFlight' = Resumed(k)
            /\ obs' = [op |-> "flushed", sent |-> ids(result.replayed), answer |-> Null,
                       queued |-> ids(revocationQueue), lastFailCount |-> hist.lastFailCount]
            /\ UNCHANGED <<identity, delegation, revocationList, trustedRevocationIssuers,
                           failedFlushQueue, safeReplayOnly, unsafeReplayConfirmArmed,
                           unsafeReplayOverrideUntil, timeTick, hasTauriRuntime, posts, now,
                           clockMoves, hist>>

RECURSIVE AddFlushed(_, _)
\* for (const revocationId of flushed.flushedIds) next = addRevocationListEntry(...)
AddFlushed(list, flushedIds) ==
    IF Len(flushedIds) = 0 THEN list
    ELSE addRevocationListEntry(AddFlushed(list, SubSeq(flushedIds, 1, Len(flushedIds) - 1)),
                                flushedIds[Len(flushedIds)], "flushed replay", now)

\* the retryCount on record for id, 0 when there is no record
RetryCountOf(retries, id) ==
    IF \E i \in 1..Len(retries) : retries[i].revocationId = id
    THEN retries[CHOOSE i \in 1..Len(retries) : retries[i].revocationId = id].retryCount
    ELSE 0

\* Replay Revocations after its await, where the flush command answered: it names some
\* of the ids it was sent as flushed and some of the others as failed
ReplayWithAnswer ==
    \E k \in 1..Len(inFlight) :
        LET result == inFlight[k]
            sent == ids(result.replayed)
        IN  \E flushedAt \in SUBSET (1..Len(sent)) :
            \E failedAt \in SUBSET ((1..Len(sent)) \ flushedAt) :
                LET flushed == [flushedIds |-> SelectSeqBy(sent, flushedAt),
                                failedIds |-> SelectSeqBy(sent, failedAt)]
                    replayedSet == {sent[i] : i \in 1..Len(sent)}
                    list == AddFlushed(revocationList, flushed.flushedIds)
                    retries == upsertFailedRevocationRetries(
                                   removeFailedRetries(failedFlushQueue, flushed.flushedIds),
                                   flushed.failedIds, now, "tauri flush failed",
                                   DefaultBaseDelayMs)
                IN  /\ hasTauriRuntime
                    /\ CanRecord
                    /\ revocationQueue' =
                           SelectSeqBy(revocationQueue,
                               {i \in 1..Len(revocationQueue) :
                                   revocationQueue[i].revocationId \notin replayedSet})
                    /\ revocationList' = list
                    /\ failedFlushQueue' = retries
                    /\ auditLog' = recordSecurityEvent(auditLog, "revocation.replayed",
                                       "flushed " \o toDecimal(Len(flushed.flushedIds))
                                       \o " revoke(s), failed "
                                       \o toDecimal(Len(flushed.failedIds)))
                    /\ unsafeReplayConfirmArmed' =
                           ArmedAfterEffect(list, trustedRevocationIssuers, safeReplayOnly,
                                            unsafeReplayConfirmArmed)
                    /\ inFlight' = Resumed(k)
                    /\ obs' = [op |-> "flushed", sent |-> sent, answer |-> Some(flushed),
                               queued |-> ids(revocationQueue),
                               lastFailCount |-> hist.lastFailCount]
                    /\ hist' = [hist EXCEPT
                                   !.flushed = @ \cup {sent[i] : i \in flushedAt},
                                   !.lastFailCount =
                                       [id \in RevocationIds |->
                                           IF id \in {sent[i] : i \in failedAt}
                                           THEN RetryCountOf(retries, id)
                                           ELSE IF id \in {sent[i] : i \in flushedAt} THEN 0
                                           ELSE @[id]]]
                    /\ UNCHANGED <<identity, delegation, trustedRevocationIssuers,
                                   safeReplayOnly, unsafeReplayOverrideUntil, timeTick,
                                   hasTauriRuntime, posts, now, clockMoves>>

\* Replay Revocations after its await, where core.invoke rejected: the handler ends
ReplayRejected ==
    \E k \in 1..Len(inFlight) :
        /\ hasTauriRuntime
        /\ inFlight' = Resumed(k)
        /\ obs' = NoObservation
        /\ UNCHANGED <<identity, delegation, revocationQueue, revocationList,
                       trustedRevocationIssuers, auditLog, failedFlushQueue, safeReplayOnly,
                       unsafeReplayConfirmArmed, unsafeReplayOverrideUntil, timeTick,
                       hasTauriRuntime, posts, now, clockMoves, hist>>

RECURSIVE Requeue(_, _)
\* for (const retry of ready) next = enqueueOfflineRevocation(next, ...)
Requeue(queue, ready) ==
    IF Len(ready) = 0 THEN queue
    ELSE LET retry == ready[Len(ready)]
         IN  enqueueOfflineRevocation(
                 Requeue(queue, SubSeq(ready, 1, Len(ready) - 1)),
                 createOfflineRevocationEntry(retry.revocationId,
                     "retry attempt " \o toDecimal(retry.retryCount), now))

\* Retry Failed Flushes
RetryFailedFlushes ==
    LET split == splitReadyFailedRetries(failedFlushQueue, now)
    IN  /\ Len(failedFlushQueue) > 0
        /\ Len(split.ready) > 0
        /\ CanRecord
        /\ revocationQueue' = Requeue(revocationQueue, split.ready)
        /\ failedFlushQueue' = split.pending
        /\ auditLog' = recordSecurityEvent(auditLog, "revocation.replayed",
                           "re-queued " \o toDecimal(Len(split.ready))
                           \o " failed revoke(s) for replay")
        /\ hist' = [hist EXCEPT !.enqueued =
                       @ \cup {split.ready[i].revocationId : i \in 1..Len(split.ready)}]
        /\ obs' = NoObservation
        /\ UNCHANGED <<identity, delegation, revocationList, trustedRevocationIssuers,
                       safeReplayOnly, unsafeReplayConfirmArmed, unsafeReplayOverrideUntil,
                       timeTick, hasTauriRuntime, posts, inFlight, now, clockMoves>>

\* Sign Revocation List
SignRevocationList ==
    LET list == signRevocationList(revocationList, identity[1].did)
    IN  /\ identity # Null
        /\ CanRecord
        /\ revocationList' = list
        /\ auditLog' = recordSecurityEvent(auditLog, "revocation.verified",
                                           "revocation list signed")
        /\ unsafeReplayConfirmArmed' =
               ArmedAfterEffect(list, trustedRevocationIssuers, safeReplayOnly,
                                unsafeReplayConfirmArmed)
        /\ obs' = NoObservation
        /\ UNCHANGED <<identity, delegation, revocationQueue, trustedRevocationIssuers,
                       failedFlushQueue, safeReplayOnly, unsafeReplayOverrideUntil, timeTick,
                       hasTauriRuntime, posts, inFlight, now, clockMoves, hist>>

\* Verify Revocation List
VerifyRevocationList ==
    LET verified == verifyRevocationListSignature(revocationList)
    IN  /\ CanRecord
        /\ auditLog' = recordSecurityEvent(auditLog, "revocation.verified",
                           "revocation list integrity "
                           \o (IF verified THEN "verified" ELSE "failed"))
        /\ obs' = NoObservation
        /\ UNCHANGED <<identity, delegation, revocationQueue, revocationList,
                       trustedRevocationIssuers, failedFlushQueue, safeReplayOnly,
                       unsafeReplayConfirmArmed, unsafeReplayOverrideUntil, timeTick,
                       hasTauriRuntime, posts, inFlight, now, clockMoves, hist>>

\* Trust Issuer
TrustIssuer ==
    LET issuerDid == revocationList.issuerDid
        trusted == IF \E i \in 1..Len(trustedRevocationIssuers) :
                          trustedRevocationIssuers[i] = issuerDid[1]
                   THEN trustedRevocationIssuers
                   ELSE Append(trustedRevocationIssuers, issuerDid[1])
    IN  /\ ~Falsy(issuerDid)
        /\ CanRecord
        /\ trustedRevocationIssuers' = trusted
        /\ auditLog' = recordSecurityEvent(auditLog, "revocation.verified",
                                           "trusted issuer " \o issuerDid[1])
        /\ unsafeReplayConfirmArmed' =
               ArmedAfterEffect(revocationList, trusted, safeReplayOnly,
                                unsafeReplayConfirmArmed)
        /\ obs' = NoObservation
        /\ UNCHANGED <<identity, delegation, revocationQueue, revocationList,
                       failedFlushQueue, safeReplayOnly, unsafeReplayOverrideUntil, timeTick,
                       hasTauriRuntime, posts, inFlight, now, clockMoves, hist>>

\* Untrust Issuer
UntrustIssuer ==
    LET issuerDid == revocationList.issuerDid
    IN  /\ ~Falsy(issuerDid)
        /\ CanRecord
        /\ trustedRevocationIssuers' =
               SelectSeqBy(trustedRevocationIssuers,
                   {i \in 1..Len(trustedRevocationIssuers) :
                       trustedRevocationIssuers[i] # issuerDid[1]})
        /\ auditLog' = recordSecurityEvent(auditLog, "revocation.verified",
                                           "removed trusted issuer " \o issuerDid[1])
        /\ obs' = NoObservation
        /\ UNCHANGED <<identity, delegation, revocationQueue, revocationList,
                       failedFlushQueue, safeReplayOnly, unsafeReplayConfirmArmed,
                       unsafeReplayOverrideUntil, timeTick, hasTauriRuntime, posts, inFlight, now,
                       clockMoves, hist>>

\* Verify UCAN
VerifyUcan ==
    LET status == verifyDelegationRevocation(delegation[1], revocationList, now)
    IN  /\ delegation # Null
        /\ CanRecord
        /\ auditLog' = recordSecurityEvent(auditLog, "ucan.verified",
                           "delegation " \o status \o " for "
                           \o formatDidHandle(delegation[1].audienceDid))
        /\ obs' = NoObservation
        /\ UNCHANGED <<identity, delegation, revocationQueue, revocationList,
                       trustedRevocationIssuers, failedFlushQueue, safeReplayOnly,
                       unsafeReplayConfirmArmed, unsafeReplayOverrideUntil, timeTick,
                       hasTauriRuntime, posts, inFlight, now, clockMoves, hist>>

\* Mark Revoked
MarkRevoked ==
    LET list == addRevocationListEntry(revocationList, delegation[1].revocationId,
                                       "manual verification marker", now)
    IN  /\ delegation # Null
        /\ CanRecord
        /\ revocationList' = list
        /\ auditLog' = recordSecurityEvent(auditLog, "ucan.verified",
                           "marked " \o delegation[1].revocationId \o " as revoked")
        /\ unsafeReplayConfirmArmed' =
               ArmedAfterEffect(list, trustedRevocationIssuers, safeReplayOnly,
                                unsafeReplayConfirmArmed)
        /\ obs' = NoObservation
        /\ UNCHANGED <<identity, delegation, revocationQueue, trustedRevocationIssuers,
                       failedFlushQueue, safeReplayOnly, unsafeReplayOverrideUntil, timeTick,
                       hasTauriRuntime, posts, inFlight, now, clockMoves, hist>>

\* Clear Revocation List
ClearRevocationList ==
    LET list == createRevocationList(now)
    IN  /\ revocationList' = list
        /\ unsafeReplayConfirmArmed' =
               ArmedAfterEffect(list, trustedRevocationIssuers, safeReplayOnly,
                                unsafeReplayConfirmArmed)
        /\ obs' = NoObservation
        /\ UNCHANGED <<identity, delegation, revocationQueue, trustedRevocationIssuers,
                       auditLog, failedFlushQueue, safeReplayOnly, unsafeReplayOverrideUntil,
                       timeTick, hasTauriRuntime, posts, inFlight, now, clockMoves, hist>>

\* Clear Audit
ClearAudit ==
    /\ auditLog' = <<>>
    /\ obs' = NoObservation
    /\ UNCHANGED <<identity, delegation, revocationQueue, revocationList,
                   trustedRevocationIssuers, failedFlushQueue, safeReplayOnly,
                   unsafeReplayConfirmArmed, unsafeReplayOverrideUntil, timeTick,
                   hasTauriRuntime, posts, inFlight, now, clockMoves, hist>>

\* Reset Demo Data: resetDemoState, its security part
ResetDemoData ==
    /\ identity' = Null
    /\ delegation' = Null
    /\ revocationQueue' = <<>>
    /\ revocationList' = createRevocationList(now)
    /\ trustedRevocationIssuers' = <<>>
    /\ unsafeReplayConfirmArmed' = FALSE
    /\ safeReplayOnly' = TRUE
    /\ unsafeReplayOverrideUntil' = Null
    /\ auditLog' = <<>>
    /\ failedFlushQueue' = <<>>
    /\ obs' = NoObservation
    /\ hist' = [NoHistory EXCEPT !.ucans = hist.ucans]
    /\ posts' = DefaultPosts
    /\ UNCHANGED <<timeTick, hasTauriRuntime, inFlight, now, clockMoves>>

\* status === "revoked" || status === "expired"
PublishBlockedWhenRevoked(status) == status = "revoked"

PublishBlocked(status) == status \in {"revoked", "expired"}

\* publishDraft, by the Publish button or Ctrl+Enter in the composer, with the draft
\* as typed; the composer, the unread count and the action note are left out
Publish ==
    \E draft \in Drafts :
        LET trimmed == trim(draft)
            status == IF delegation # Null
                      THEN verifyDelegationRevocation(delegation[1], revocationList, now)
                      ELSE "none"
        IN  /\ IF Len(trimmed) = 0
               THEN UNCHANGED <<posts, auditLog>>
               ELSE IF delegation # Null /\ PublishBlocked(status)
               THEN /\ CanRecord
                    /\ auditLog' = recordSecurityEvent(auditLog, "ucan.verified",
                           "blocked publish because delegation is " \o status \o " for "
                           \o formatDidHandle(delegation[1].audienceDid))
                    /\ UNCHANGED posts
               ELSE /\ Len(posts) < Len(DefaultPosts) + MaxPosts
                    /\ posts' = prependFeedPost(posts,
                                    toFeedPost(createDraftPost(trimmed, ActiveTab, now)))
                    /\ UNCHANGED auditLog
            /\ obs' = [op |-> "publish", draft |-> draft, posts |-> posts, log |-> auditLog]
            /\ UNCHANGED <<identity, delegation, revocationQueue, revocationList,
                           trustedRevocationIssuers, failedFlushQueue, safeReplayOnly,
                           unsafeReplayConfirmArmed, unsafeReplayOverrideUntil, timeTick,
                           hasTauriRuntime, inFlight, now, clockMoves, hist>>

(***************************************************************************)
(* The revocation list of packages/core/src/index.ts on its own: every     *)
(* sequence of calls of its functions on one list, and edits of its stored *)
(* text that come back through parseRevocationList.                        *)
(***************************************************************************)
ledgerFrame == <<identity, delegation, revocationQueue, trustedRevocationIssuers, auditLog,
                 failedFlushQueue, safeReplayOnly, unsafeReplayConfirmArmed,
                 unsafeReplayOverrideUntil, timeTick, hasTauriRuntime, posts, inFlight, now,
                 clockMoves>>

LedgerInit == AppInit /\ hasTauriRuntime = FALSE

\* addRevocationListEntry(list, revocationId, reason, revokedAt)
AddEntry ==
    \E revocationId \in LedgerIds, reason \in LedgerReasons, revokedAt \in LedgerTimes :
        /\ ~addRevocationListEntryThrows(revocationId, reason)
        /\ revocationList' = addRevocationListEntry(revocationList, revocationId, reason,
                                                    revokedAt)
        /\ Len(revocationList'.entries) <= MaxLedgerEntries
        /\ obs' = [op |-> "add", revocationId |-> revocationId, reason |-> reason,
                   revokedAt |-> revokedAt,
                   signedBefore |-> revocationList.signature # Null,
                   listedBefore |-> isRevocationListed(revocationList, revocationId)]
        /\ UNCHANGED <<ledgerFrame, hist>>

\* signRevocationList(list, issuerDid), and the same call once more
SignList ==
    \E issuerDid \in LedgerIssuers :
        /\ ~signRevocationListThrows(issuerDid)
        /\ revocationList' = signRevocationList(revocationList, issuerDid)
        /\ obs' = [op |-> "sign", issuerDid |-> issuerDid,
                   again |-> signRevocationList(revocationList, issuerDid)]
        /\ UNCHANGED <<ledgerFrame, hist>>

\* a list is signed when its signature is the one signRevocationList gave it
Signed(list) ==
    /\ list.signature # Null
    /\ Len(list.entries) > 0
    /\ verifyRevocationListSignature(list)

\* the stored text of a signed list is edited, the signature left as it is, and read
\* back: the reason of one entry is changed
TamperReason ==
    /\ Signed(revocationList)
    /\ \E i \in 1..Len(revocationList.entries), reason \in ForgedReasons :
           LET edited == [revocationList EXCEPT !.entries[i].reason = reason]
               list == parseRevocationList(serializeRevocationList(edited), 0)
           IN  /\ list.entries # revocationList.entries
               /\ revocationList' = list
    /\ obs' = [op |-> "tamper", edit |-> "reason"]
    /\ hist' = [hist EXCEPT !.edited = TRUE]
    /\ UNCHANGED ledgerFrame

\* ... an entry is added
TamperAddEntry ==
    /\ Len(revocationList.entries) < MaxLedgerEntries
    /\ Signed(revocationList)
    /\ \E revocationId \in LedgerIds, reason \in ForgedReasons, revokedAt \in LedgerTimes :
           LET edited == [revocationList EXCEPT !.entries =
                             Append(@, [revocationId |-> revocationId,
                                        revokedAt |-> revokedAt, reason |-> reason])]
           IN  revocationList' = parseRevocationList(serializeRevocationList(edited), 0)
    /\ obs' = [op |-> "tamper", edit |-> "add"]
    /\ hist' = [hist EXCEPT !.edited = TRUE]
    /\ UNCHANGED ledgerFrame

\* ... an entry is removed
TamperRemoveEntry ==
    /\ Signed(revocationList)
    /\ \E i \in 1..Len(revocationList.entries) :
           LET edited == [revocationList EXCEPT !.entries =
                             SubSeq(@, 1, i - 1) \o SubSeq(@, i + 1, Len(@))]
           IN  revocationList' = parseRevocationList(serializeRevocationList(edited), 0)
    /\ obs' = [op |-> "tamper", edit |-> "remove"]
    /\ hist' = [hist EXCEPT !.edited = TRUE]
    /\ UNCHANGED ledgerFrame

\* verifyDelegationRevocation(grant, list, at) for a grant of createUcanDelegation
VerifyDelegation ==
    \E revocationId \in GrantIds, at \in {GrantTtlSeconds * 1000 - 1, GrantTtlSeconds * 1000} :
        LET grant == createUcanDelegation(IdentityDid, AudienceDid,
                         <<[with |-> IdentityDid, can |-> "feed/publish"]>>,
                         GrantTtlSeconds, 0, revocationId, "nonce")
        IN  /\ obs' = [op |-> "verifyDelegation", grant |-> grant, at |-> at,
                       result |-> verifyDelegationRevocation(grant, revocationList, at)]
            /\ UNCHANGED <<revocationList, ledgerFrame, hist>>

\* verifyRevocationListPolicy(list, trustedDidList)
VerifyPolicy ==
    \E trustedDidList \in LedgerTrusted :
        /\ obs' = [op |-> "policy", trustedDidList |-> trustedDidList,
                   result |-> verifyRevocationListPolicy(revocationList, trustedDidList)]
        /\ UNCHANGED <<revocationList, ledgerFrame, hist>>

LedgerNext ==
    \/ AddEntry
    \/ SignList
    \/ TamperReason
    \/ TamperAddEntry
    \/ TamperRemoveEntry
    \/ VerifyDelegation
    \/ VerifyPolicy

SpecLedger == LedgerInit /\ [][LedgerNext]_vars

(***************************************************************************)
(* The offline queue of packages/core/src/index.ts on its own: every       *)
(* sequence of enqueueOfflineRevocation calls from the empty queue.        *)
(***************************************************************************)
QueueInit == FreshState /\ hasTauriRuntime = FALSE /\ hist = [calls |-> <<>>]

\* enqueueOfflineRevocation(queue, createOfflineRevocationEntry(revocationId, reason, queuedAt))
Enqueue ==
    \E revocationId \in QueueIds, reason \in QueueReasons, queuedAt \in QueueTimes :
        LET entry == createOfflineRevocationEntry(revocationId, reason, queuedAt)
        IN  /\ Len(hist.calls) < MaxEnqueues
            /\ ~createOfflineRevocationEntryThrows(revocationId, reason)
            /\ revocationQueue' = enqueueOfflineRevocation(revocationQueue, entry)
            /\ hist' = [calls |-> Append(hist.calls, entry)]
            /\ obs' = [op |-> "enqueue", entry |-> entry, queue |-> revocationQueue]
            /\ UNCHANGED <<identity, delegation, revocationList, trustedRevocationIssuers,
                           auditLog, failedFlushQueue, safeReplayOnly,
                           unsafeReplayConfirmArmed, unsafeReplayOverrideUntil, timeTick,
                           hasTauriRuntime, posts, inFlight, now, clockMoves>>

\* replayOfflineRevocations(queue, maxBatch): the queue is read, not assigned
Replay ==
    \E maxBatch \in ReplayBatches :
        /\ obs' = [op |-> "replay", queue |-> revocationQueue, maxBatch |-> maxBatch,
                   result |-> replayOfflineRevocations(revocationQueue, maxBatch)]
        /\ UNCHANGED <<identity, delegation, revocationQueue, revocationList,
                       trustedRevocationIssuers, auditLog, failedFlushQueue, safeReplayOnly,
                       unsafeReplayConfirmArmed, unsafeReplayOverrideUntil, timeTick,
                       hasTauriRuntime, posts, inFlight, now, clockMoves, hist>>

QueueNext ==
    \/ Enqueue
    \/ Replay

SpecQueue == QueueInit /\ [][QueueNext]_vars

(***************************************************************************)
(* The offline queue and its stored text: the queue is written as text by  *)
(* serializeOfflineRevocationQueue and read by parseOfflineRevocationQueue *)
(* at mount and after the load of the security state; the text read is the *)
(* one written, or a text that something else left under the key.          *)
(***************************************************************************)
\* JSON.stringify(queue), as the value JSON.parse reads back from it
serializeOfflineRevocationQueue(queue) ==
    [text |-> "json",
     value |-> JsonArr([i \in 1..Len(queue) |->
                  JsonObj([revocationId |-> JsonStr(queue[i].revocationId),
                           queuedAt |-> JsonNum(queue[i].queuedAt),
                           reason |-> JsonStr(queue[i].reason)])])]

\* the entry of parseOfflineRevocationQueue's loop: Null where the loop continues
parseOfflineRevocationEntry(item) ==
    LET idRaw == Property(item, "revocationId")
        reasonRaw == Property(item, "reason")
        queuedAt == Property(item, "queuedAt")
        revocationId == IF IsString(idRaw) THEN trim(idRaw.string) ELSE ""
        reason == IF IsString(reasonRaw) THEN trim(reasonRaw.string) ELSE ""
    IN  IF ~isObject(item) THEN Null
        ELSE IF Len(revocationId) = 0 \/ Len(reason) = 0 \/ ~IsNumber(queuedAt) THEN Null
        ELSE Some([revocationId |-> revocationId, queuedAt |-> queuedAt.number,
                   reason |-> reason])

\* a variant of parseOfflineRevocationQueue that keeps the first entry of each id
parseOfflineRevocationQueueFirstOfId(raw) ==
    LET parsed == raw.value
        read == [i \in 1..Len(parsed.array) |-> parseOfflineRevocationEntry(parsed.array[i])]
        kept == SelectSeqBy(read, {i \in 1..Len(read) :
                    /\ read[i] # Null
                    /\ \A j \in 1..(i - 1) :
                           read[j] = Null \/ read[j][1].revocationId # read[i][1].revocationId})
    IN  IF raw.text # "json" THEN <<>>
        ELSE IF ~IsArray(parsed) THEN <<>>
        ELSE [i \in 1..Len(kept) |-> kept[i][1]]

\* parseOfflineRevocationQueue(raw): raw.text tells null or undefined, blank text and
\* text that JSON.parse rejects from the text whose JSON.parse is raw.value
parseOfflineRevocationQueue(raw) ==
    LET parsed == raw.value
        read == [i \in 1..Len(parsed.array) |-> parseOfflineRevocationEntry(parsed.array[i])]
        kept == SelectSeqBy(read, {i \in 1..Len(read) : read[i] # Null})
    IN  IF raw.text # "json" THEN <<>>
        ELSE IF ~IsArray(parsed) THEN <<>>
        ELSE [i \in 1..Len(kept) |-> kept[i][1]]

\* the items of a stored array that the queue did not write
StoredQueueItems ==
    {JsonObj([revocationId |-> JsonStr(id), queuedAt |-> JsonNum(1000),
              reason |-> JsonStr("manual profile revoke")]) : id \in {"revoke-a", " revoke-a "}}
    \cup {JsonObj([revocationId |-> JsonStr("revoke-b"), reason |-> JsonStr(" ")]),
          JsonStr("revoke-a")}

\* texts under the key of the queue that the queue did not write: no text, text that
\* is no JSON, JSON that is no array, and arrays of one and two items
StoredQueueTexts ==
    {[text |-> "null", value |-> Undefined], [text |-> "malformed", value |-> Undefined],
     [text |-> "json", value |-> JsonObj([revocationId |-> JsonStr("revoke-a")])]}
    \cup {[text |-> "json", value |-> JsonArr(<<item>>)] : item \in StoredQueueItems}
    \cup {[text |-> "json", value |-> JsonArr(<<first, second>>)] :
             first \in StoredQueueItems, second \in StoredQueueItems}

\* App mounts, or the load of the security state completes: the queue is what
\* parseOfflineRevocationQueue reads from the stored text
LoadQueue ==
    \E raw \in {serializeOfflineRevocationQueue(revocationQueue)} \cup StoredQueueTexts :
        /\ revocationQueue' = parseOfflineRevocationQueue(raw)
        /\ obs' = [op |-> "load", raw |-> raw,
                   written |-> raw = serializeOfflineRevocationQueue(revocationQueue)]
        /\ UNCHANGED <<identity, delegation, revocationList, trustedRevocationIssuers,
                       auditLog, failedFlushQueue, safeReplayOnly, unsafeReplayConfirmArmed,
                       unsafeReplayOverrideUntil, timeTick, hasTauriRuntime, posts, inFlight,
                       now, clockMoves, hist>>

StoredQueueNext ==
    \/ Enqueue
    \/ LoadQueue

SpecStoredQueue == QueueInit /\ [][StoredQueueNext]_vars

(***************************************************************************)
(* The failed-flush retries of packages/core/src/index.ts on their own:    *)
(* every sequence of upsertFailedRevocationRetries and removeFailedRetries *)
(* calls from the empty list.                                              *)
(***************************************************************************)
retryFrame == <<identity, delegation, revocationQueue, revocationList,
                trustedRevocationIssuers, auditLog, safeReplayOnly, unsafeReplayConfirmArmed,
                unsafeReplayOverrideUntil, timeTick, hasTauriRuntime, posts, inFlight, now,
                clockMoves, hist>>

RetryInit == AppInit /\ hasTauriRuntime = FALSE

\* upsertFailedRevocationRetries(current, failedIds, now, errorLabel, baseDelayMs)
RecordFailures ==
    \E failedIds \in RetryIdLists, at \in RetryTimes, baseDelayMs \in RetryBaseDelays :
        LET next == upsertFailedRevocationRetries(failedFlushQueue, failedIds, at,
                                                  "flush failed", baseDelayMs)
        IN  /\ ~upsertFailedRevocationRetriesThrows(failedIds, "flush failed")
            /\ \A i \in 1..Len(next) : next[i].retryCount <= MaxRetryCount
            /\ failedFlushQueue' = next
            /\ obs' = [op |-> "upsert", current |-> failedFlushQueue, failedIds |-> failedIds,
                       at |-> at, baseDelayMs |-> baseDelayMs,
                       last |-> IF obs.op = "upsert"
                                THEN Some([failedIds |-> obs.failedIds, at |-> obs.at,
                                           baseDelayMs |-> obs.baseDelayMs])
                                ELSE Null]
            /\ UNCHANGED retryFrame

\* removeFailedRetries(current, flushedIds)
ClearFailures ==
    \E flushedIds \in RetryIdLists :
        /\ failedFlushQueue' = removeFailedRetries(failedFlushQueue, flushedIds)
        /\ obs' = [op |-> "remove", current |-> failedFlushQueue, flushedIds |-> flushedIds]
        /\ UNCHANGED retryFrame

RetryNext ==
    \/ RecordFailures
    \/ ClearFailures

SpecRetry == RetryInit /\ [][RetryNext]_vars

(***************************************************************************)
(* The retry escalation of App: the effect that keeps retryHighStreak,     *)
(* under the writes of the failed-retry list that the handlers of App make *)
(* and the ticks of the timer.  hist.retryHighStreak is the streak,        *)
(* hist.seen the severities the last runs of the effect saw, the latest    *)
(* last; obs is the last run of the effect.                                *)
(***************************************************************************)
MaxEvaluations == 4       \* ticks of the timer in one run

MaxHighRetryCount == 6    \* the retryCount up to which failures are recorded here

EscalationIdLists == {<<"revoke-a">>, <<"revoke-b">>, <<"revoke-a", "revoke-a">>}

\* Math.max(...failedFlushQueue.map((entry) => entry.retryCount))
maxRetryCount(queue) ==
    CHOOSE n \in {queue[i].retryCount : i \in 1..Len(queue)} :
        \A i \in 1..Len(queue) : queue[i].retryCount <= n

\* failedRetryStatus?.severity; "none" where failedRetryStatus is null
severityOf(queue) ==
    IF Len(queue) = 0 THEN "none"
    ELSE IF maxRetryCount(queue) >= 5 THEN "high"
    ELSE IF maxRetryCount(queue) >= 3 THEN "medium"
    ELSE "low"

\* a variant of the updater that resets the streak only for an empty list
retryHighStreakUpdaterKeepsMedium(current, queue) ==
    IF severityOf(queue) = "none" THEN 0 ELSE current + 1

\* the updater given to setRetryHighStreak
retryHighStreakUpdater(current, queue) ==
    IF severityOf(queue) # "high" THEN 0 ELSE current + 1

retryHighStreak == hist.retryHighStreak

retryEscalationActive == retryHighStreak >= 3

escalationFrame == <<identity, delegation, revocationQueue, revocationList,
                     trustedRevocationIssuers, auditLog, safeReplayOnly,
                     unsafeReplayConfirmArmed, unsafeReplayOverrideUntil, hasTauriRuntime,
                     posts, inFlight>>

EscalationInit ==
    /\ FreshState
    /\ hasTauriRuntime = FALSE
    /\ hist = [retryHighStreak |-> 0, seen |-> <<>>]

\* the last three of the severities seen
LastThree(seen) == IF Len(seen) <= 3 THEN seen ELSE SubSeq(seen, Len(seen) - 2, Len(seen))

\* a run of the effect for the list it renders with
RunStreakEffect(cause, queue) ==
    /\ hist' = [retryHighStreak |-> retryHighStreakUpdater(retryHighStreak, queue),
                seen |-> LastThree(Append(hist.seen, severityOf(queue)))]
    /\ obs' = [op |-> "evaluate", cause |-> cause, before |-> retryHighStreak,
               severity |-> severityOf(queue)]

\* a write of the failed-retry list: the effect runs where the severity changed
AfterListWrite(queue) ==
    /\ failedFlushQueue' = queue
    /\ IF severityOf(queue) # severityOf(failedFlushQueue)
       THEN RunStreakEffect("list", queue)
       ELSE obs' = NoObservation /\ UNCHANGED hist
    /\ UNCHANGED <<escalationFrame, timeTick, now, clockMoves>>

\* the setFailedFlushQueue of the Replay Revocations handler for an answer of the flush
FlushAnswered ==
    \E flushedIds \in EscalationIdLists \cup {<<>>}, failedIds \in EscalationIdLists \cup {<<>>} :
        LET next == upsertFailedRevocationRetries(
                        removeFailedRetries(failedFlushQueue, flushedIds), failedIds, now,
                        "tauri flush failed", DefaultBaseDelayMs)
        IN  /\ \A i \in 1..Len(next) : next[i].retryCount <= MaxHighRetryCount
            /\ AfterListWrite(next)

\* the setFailedFlushQueue(pending) of Retry Failed Flushes
RequeueReady ==
    /\ Len(failedFlushQueue) > 0
    /\ AfterListWrite(splitReadyFailedRetries(failedFlushQueue, now).pending)

\* the timer sets timeTick and the effect runs
EvaluationTick ==
    /\ clockMoves < MaxEvaluations
    /\ now' = now + TickIntervalMs
    /\ timeTick' = now'
    /\ clockMoves' = clockMoves + 1
    /\ RunStreakEffect("tick", failedFlushQueue)
    /\ UNCHANGED <<escalationFrame, failedFlushQueue>>

\* the page is loaded again: the list and the streak are read from storage as they were
\* written, and the effect runs once as App mounts
Reload ==
    /\ retryHighStreak < MaxEvaluations
    /\ timeTick' = now
    /\ RunStreakEffect("mount", failedFlushQueue)
    /\ UNCHANGED <<escalationFrame, failedFlushQueue, now, clockMoves>>

EscalationNext ==
    \/ FlushAnswered
    \/ RequeueReady
    \/ EvaluationTick
    \/ Reload

SpecEscalation == EscalationInit /\ [][EscalationNext]_vars

\* the list holds an entry that failed five times or more
HasHighRetry(queue) == \E i \in 1..Len(queue) : queue[i].retryCount >= 5

AuditInit ==
    /\ FreshState
    /\ hasTauriRuntime = FALSE
    /\ \E maxEntries \in AuditLimits : hist = [appended |-> <<>>, maxEntries |-> maxEntries]

\* appendSecurityAuditEntry(current, createSecurityAuditEntry(event, detail, now), maxEntries)
AppendEntryWith(events, entropies) ==
    \E event \in events, detail \in AuditDetails, entropy \in entropies :
        LET entry == createSecurityAuditEntry(event, detail, now, entropy)
        IN  /\ Len(hist.appended) < MaxAppends
            /\ ~createSecurityAuditEntryThrows(detail)
            /\ auditLog' = appendSecurityAuditEntry(auditLog, entry, hist.maxEntries)
            /\ hist' = [hist EXCEPT !.appended = Append(@, entry)]
            /\ obs' = [op |-> "append", entry |-> entry]
            /\ UNCHANGED <<identity, delegation, revocationQueue, revocationList,
                           trustedRevocationIssuers, failedFlushQueue, safeReplayOnly,
                           unsafeReplayConfirmArmed, unsafeReplayOverrideUntil, timeTick,
                           hasTauriRuntime, posts, inFlight, now, clockMoves>>

AppendEntry == AppendEntryWith(AuditEvents, AuditEntropies)

AuditNext == AppendEntry

SpecAudit == AuditInit /\ [][AuditNext]_vars

(***************************************************************************)
(* createUcanDelegation and parseUcanDelegation on their own, as a caller  *)
(* of packages/core may call them; obs holds the arguments and the result  *)
(* of the last call and, after two calls of createUcanDelegation in a row  *)
(* with the same arguments, those of the call before.                      *)
(***************************************************************************)
\* the objects stored text may hold: every field is as serializeUcanDelegation writes
\* it or damaged
StoredObjects ==
    [issuerDid : {JsonStr(IdentityDid), JsonNum(1)},
     audienceDid : {JsonStr(AudienceDid), Undefined},
     capabilities : {JsonArr(<<JsonObj([with |-> JsonStr(" " \o IdentityDid),
                                        can |-> JsonStr("feed/publish")])>>),
                     JsonArr(<<JsonObj([with |-> JsonStr("  "),
                                        can |-> JsonStr("feed/publish")])>>),
                     JsonArr(<<>>)},
     issuedAt : {JsonNum(0), JsonStr("0")},
     expiresAt : {JsonNum(GrantTtlSeconds * 1000), JsonNum(1000), JsonNum(0)},
     revocationId : {JsonStr(" revoke-a "), JsonStr("  ")},
     nonce : {JsonStr("nonce-a"), Undefined},
     version : {JsonStr("1.1"), JsonStr("1.0")}]

\* null or undefined, blank text, text that is not JSON, and JSON text
StoredTexts ==
    {[text |-> kind, value |-> Undefined] : kind \in {"null", "blank", "malformed"}}
    \cup {[text |-> "json", value |-> value] : value \in {JsonNum(42), JsonArr(<<>>)}}
    \cup {[text |-> "json", value |-> JsonObj(object)] : object \in StoredObjects}

GrantInit == AppInit /\ hasTauriRuntime = FALSE

\* createUcanDelegation(params) with every optional parameter given; the nonce is the
\* text of randomBytes(8), any of Nonces
IssueDelegation ==
    \E dids \in IssueDids, capabilities \in IssueCapabilities, ttlSeconds \in IssueTtls,
       issuedAt \in IssueTimes, revocationId \in IssueRevocationIds, nonce \in Nonces :
        LET params == [issuerDid |-> dids[1], audienceDid |-> dids[2],
                       capabilities |-> capabilities, ttlSeconds |-> ttlSeconds,
                       issuedAt |-> issuedAt, revocationId |-> revocationId]
            ttl == ttlSecondsOrDefault(ttlSeconds)
            threw == createUcanDelegationThrows(dids[1], dids[2], capabilities, ttl,
                                                revocationId)
            grant == createUcanDelegation(dids[1], dids[2], capabilities, ttl, issuedAt,
                                          revocationId, nonce)
        IN  /\ obs' = [op |-> "issue", params |-> params,
                       result |-> IF threw THEN Null ELSE Some(grant),
                       last |-> IF obs.op = "issue" /\ obs.params = params
                                THEN Some([params |-> obs.params, result |-> obs.result])
                                ELSE Null]
            /\ UNCHANGED <<revocationList, ledgerFrame, hist>>

\* parseUcanDelegation(raw) of stored text
ParseDelegation ==
    \E raw \in StoredTexts :
        /\ obs' = [op |-> "parse", raw |-> raw, result |-> parseUcanDelegation(raw)]
        /\ UNCHANGED <<revocationList, ledgerFrame, hist>>

\* parseUcanDelegation(serializeUcanDelegation(delegation)) of a grant just created
ParseSerialized ==
    /\ obs.op = "issue" /\ obs.result # Null
    /\ LET raw == serializeUcanDelegation(obs.result[1])
       IN  obs' = [op |-> "parse", raw |-> raw, result |-> parseUcanDelegation(raw)]
    /\ UNCHANGED <<revocationList, ledgerFrame, hist>>

\* isUcanDelegationExpired(grant, now) and isUcanDelegationExpiringSoon(grant,
\* thresholdMs, now) of the same grant at the same now
CheckExpiry ==
    \E expiresAt \in ExpiryTimes, thresholdMs \in ExpiryThresholds, at \in ExpiryClock :
        LET grant == [expiresAt |-> expiresAt]
        IN  /\ obs' = [op |-> "expiry", expiresAt |-> expiresAt, thresholdMs |-> thresholdMs,
                       at |-> at,
                       expired |-> isUcanDelegationExpired(grant, at),
                       soon |-> isUcanDelegationExpiringSoon(grant, thresholdMs, at)]
            /\ UNCHANGED <<revocationList, ledgerFrame, hist>>

GrantNext == IssueDelegation \/ ParseDelegation \/ ParseSerialized \/ CheckExpiry

SpecGrant == GrantInit /\ [][GrantNext]_vars

(***************************************************************************)
(* The three stored aggregates of packages/core written to text and read   *)
(* back: a grant of createUcanDelegation, a ledger built by                *)
(* createRevocationList, addRevocationListEntry and signRevocationList,    *)
(* and a log built by appendSecurityAuditEntry.  hist.value names the      *)
(* aggregate a behaviour builds; obs holds the value written and the value *)
(* read back, or what the three parsers made of a text no serializer       *)
(* writes.                                                                 *)
(***************************************************************************)
StoredValues == {"grant", "list", "log"}

\* texts that no serializer of packages/core writes: nothing stored, blank text, text
\* JSON.parse throws on, and JSON of another shape
ForeignTexts ==
    {[text |-> "null", value |-> Undefined], [text |-> "blank", value |-> Undefined],
     [text |-> "malformed", value |-> Undefined], [text |-> "json", value |-> JsonNull],
     [text |-> "json", value |-> JsonNum(42)], [text |-> "json", value |-> JsonStr("x")],
     [text |-> "json", value |-> JsonArr(<<>>)],
     [text |-> "json", value |-> JsonArr(<<JsonNum(1)>>)],
     [text |-> "json", value |-> JsonObj(<<>>)]}

RoundTripInit ==
    /\ FreshState
    /\ hasTauriRuntime = FALSE
    /\ \E value \in StoredValues :
           hist = [appended |-> <<>>, maxEntries |-> AuditMaxEntries, value |-> value]

IssueGrant == hist.value = "grant" /\ IssueDelegation

\* parseUcanDelegation(serializeUcanDelegation(grant)) of the grant just created
RoundTripGrant ==
    /\ hist.value = "grant"
    /\ obs.op = "issue" /\ obs.result # Null
    /\ obs' = [op |-> "roundTrip", value |-> obs.result,
               back |-> parseUcanDelegation(serializeUcanDelegation(obs.result[1]))]
    /\ UNCHANGED <<revocationList, ledgerFrame, hist>>

AddListEntry == hist.value = "list" /\ AddEntry

SignBuiltList == hist.value = "list" /\ SignList

\* parseRevocationList(serializeRevocationList(list)) of the ledger as it stands
RoundTripList ==
    /\ hist.value = "list"
    /\ obs' = [op |-> "roundTrip", value |-> revocationList,
               back |-> parseRevocationList(serializeRevocationList(revocationList), now)]
    /\ UNCHANGED <<revocationList, ledgerFrame, hist>>

\* the time of the entries is set before the first of them is appended
LogClock == hist.value = "log" /\ hist.appended = <<>> /\ AdvanceClock

\* the first entry is of any event of SecurityAuditEventType
AppendLogEntry ==
    /\ hist.value = "log"
    /\ AppendEntryWith(IF hist.appended = <<>> THEN SecurityAuditEventTypes ELSE AuditEvents,
                       {"4Kp"})

\* parseSecurityAuditLog(serializeSecurityAuditLog(entries)) of the log as it stands
RoundTripLog ==
    /\ hist.value = "log"
    /\ obs' = [op |-> "roundTrip", value |-> auditLog,
               back |-> parseSecurityAuditLog(serializeSecurityAuditLog(auditLog))]
    /\ UNCHANGED <<revocationList, ledgerFrame, hist>>

\* the three parsers given a text none of the serializers writes
ParseForeignText ==
    \E raw \in ForeignTexts :
        /\ obs' = [op |-> "foreign", raw |-> raw, grant |-> parseUcanDelegation(raw),
                   list |-> parseRevocationList(raw, now),
                   log |-> parseSecurityAuditLog(raw)]
        /\ UNCHANGED <<revocationList, ledgerFrame, hist>>

RoundTripNext ==
    \/ IssueGrant
    \/ RoundTripGrant
    \/ AddListEntry
    \/ SignBuiltList
    \/ RoundTripList
    \/ LogClock
    \/ AppendLogEntry
    \/ RoundTripLog
    \/ ParseForeignText

SpecRoundTrip == RoundTripInit /\ [][RoundTripNext]_vars

(***************************************************************************)
(* The import of a feed snapshot: parseImportedFeedState of                *)
(* packages/core/src/index.ts and importDemoState of App.  The feed state  *)
(* of App is posts together with hist.activeTab, hist.unreadAlerts,        *)
(* hist.followedCids, hist.pinnedCids and hist.pinnedOnly, a flag map      *)
(* being the set of its keys; hist.actionNote is the note shown.  obs is   *)
(* the last import: the text read and the feed state before it.  The       *)
(* numbers of a text are integers, which Math.floor leaves as they are.    *)
(***************************************************************************)
JsonBool(b) == [boolean |-> b]

ActiveTabs == {"main", "discover", "private", "alerts", "profile"}

isActiveTab(value) == value \in ActiveTabs

isFeedTab(value) == value \in ActiveTabs \cup {"all"}

\* parseActiveTab(value, fallback) for a string or null
parseActiveTab(value, fallback) ==
    IF value = Null THEN fallback
    ELSE IF isActiveTab(value[1]) THEN value[1]
    ELSE fallback

isFeedPost(value) ==
    /\ isObject(value)
    /\ LET cid == Property(value, "cid")
           body == Property(value, "body")
           tag == Property(value, "tag")
           timestamp == Property(value, "timestamp")
       IN  /\ IsString(cid) /\ Len(trim(cid.string)) > 0
           /\ IsString(body) /\ Len(trim(body.string)) > 0
           /\ IsString(tag) /\ isFeedTab(tag.string)
           /\ IsNumber(timestamp)

\* the keys of normalizeFlagMap(value): Object.entries of an array are its indices
normalizeFlagMap(value) ==
    IF ~isObject(value) THEN {}
    ELSE IF IsArray(value)
    THEN {toDecimal(i - 1) : i \in {j \in 1..Len(value.array) : value.array[j] = JsonBool(TRUE)}}
    ELSE {key \in DOMAIN value.object : value.object[key] = JsonBool(TRUE)}

\* parseImportedFeedState throws "Import failed: invalid JSON."
parseImportedFeedStateThrows(raw) == raw.text # "json" \/ ~isObject(raw.value)

\* the post a text's object is, for an object that passed isFeedPost
FeedPostOf(value) ==
    [cid |-> value.object.cid.string, body |-> value.object.body.string,
     tag |-> value.object.tag.string, timestamp |-> value.object.timestamp.number]

parseImportedFeedState(raw, defaultPosts) ==
    LET parsed == raw.value
        tab == Property(parsed, "activeTab")
        unread == Property(parsed, "unreadAlerts")
        list == Property(parsed, "posts")
        importedPosts ==
            IF IsArray(list)
            THEN LET kept == SelectSeqBy(list.array,
                                 {i \in 1..Len(list.array) : isFeedPost(list.array[i])})
                 IN  [i \in 1..Len(kept) |-> FeedPostOf(kept[i])]
            ELSE <<>>
    IN  [activeTab |-> parseActiveTab(IF IsString(tab) THEN Some(tab.string) ELSE Null, "main"),
         unreadAlerts |-> IF IsNumber(unread) /\ unread.number >= 0 THEN unread.number ELSE 0,
         followedCids |-> normalizeFlagMap(Property(parsed, "followedCids")),
         pinnedCids |-> normalizeFlagMap(Property(parsed, "pinnedCids")),
         posts |-> IF Len(importedPosts) > 0 THEN importedPosts ELSE defaultPosts]

ImportedPost ==
    JsonObj([cid |-> JsonStr("bafyimport"), body |-> JsonStr("imported"),
             tag |-> JsonStr("discover"), timestamp |-> JsonNum(7)])

\* the texts of the files imported: text that is no JSON, JSON that is no object, and
\* objects with every field valid, with invalid fields, and with no field
ImportTexts ==
    {[text |-> "malformed", value |-> Undefined], [text |-> "blank", value |-> Undefined],
     [text |-> "json", value |-> JsonNull], [text |-> "json", value |-> JsonNum(3)],
     [text |-> "json", value |-> JsonStr("main")], [text |-> "json", value |-> JsonArr(<<>>)],
     [text |-> "json", value |-> JsonArr(<<ImportedPost>>)],
     [text |-> "json", value |-> JsonObj(<<>>)],
     [text |-> "json",
      value |-> JsonObj([activeTab |-> JsonStr("discover"), unreadAlerts |-> JsonNum(3),
                         followedCids |-> JsonObj([abc |-> JsonBool(TRUE)]),
                         pinnedCids |-> JsonObj([def |-> JsonBool(TRUE)]),
                         posts |-> JsonArr(<<ImportedPost>>)])],
     [text |-> "json",
      value |-> JsonObj([activeTab |-> JsonStr("all"), unreadAlerts |-> JsonNum(-2),
                         followedCids |-> JsonObj([ok |-> JsonBool(TRUE),
                                                   nope |-> JsonStr("x")]),
                         pinnedCids |-> JsonObj([p1 |-> JsonBool(TRUE), p2 |-> JsonNum(1)]),
                         posts |-> JsonArr(<<JsonObj([bad |-> JsonBool(TRUE)])>>)])]}

FeedCids == {"bafybeigd", "abc"}

\* the feed state of App
FeedState ==
    [activeTab |-> hist.activeTab, unreadAlerts |-> hist.unreadAlerts,
     followedCids |-> hist.followedCids, pinnedCids |-> hist.pinnedCids, posts |-> posts]

ImportInit ==
    /\ FreshState
    /\ hasTauriRuntime = FALSE
    /\ \E activeTab \in ActiveTabs, unreadAlerts \in {0, 2}, followedCids \in SUBSET FeedCids,
          pinnedCids \in SUBSET FeedCids, pinnedOnly \in BOOLEAN :
           hist = [activeTab |-> activeTab, unreadAlerts |-> unreadAlerts,
                   followedCids |-> followedCids, pinnedCids |-> pinnedCids,
                   pinnedOnly |-> pinnedOnly, actionNote |-> "Ready"]

\* importDemoState for a file of the text raw
ImportDemoState ==
    \E raw \in ImportTexts :
        LET threw == parseImportedFeedStateThrows(raw)
            parsed == parseImportedFeedState(raw, DefaultPosts)
        IN  /\ IF threw
               THEN /\ hist' = [hist EXCEPT !.actionNote = "Import failed: invalid JSON."]
                    /\ UNCHANGED posts
               ELSE /\ hist' = [activeTab |-> parsed.activeTab,
                                unreadAlerts |-> parsed.unreadAlerts,
                                followedCids |-> parsed.followedCids,
                                pinnedCids |-> parsed.pinnedCids, pinnedOnly |-> FALSE,
                                actionNote |-> "Demo state imported."]
                    /\ posts' = parsed.posts
            /\ obs' = [op |-> "import", raw |-> raw, before |-> FeedState]
            /\ UNCHANGED <<identity, delegation, revocationQueue, revocationList,
                           trustedRevocationIssuers, auditLog, failedFlushQueue,
                           safeReplayOnly, unsafeReplayConfirmArmed,
                           unsafeReplayOverrideUntil, timeTick, hasTauriRuntime, inFlight,
                           now, clockMoves>>

ImportNext == ImportDemoState

SpecImport == ImportInit /\ [][ImportNext]_vars

(***************************************************************************)
(* removeFeedPost and restoreFeedPost of packages/core/src/index.ts on     *)
(* their own, on every list of up to MaxFeedLength posts.  A snapshot      *)
(* holds the index as JavaScript counts it, from 0.  obs is the last call  *)
(* of removeFeedPost: its arguments, its result, and the list that         *)
(* restoreFeedPost makes of the result.                                    *)
(***************************************************************************)
MaxFeedLength == 3    \* posts of a list

\* two posts of the same cid and body, one of the same cid only, and one of its own
FeedPosts ==
    {[cid |-> "bafy-one", body |-> "one", tag |-> "main", timestamp |-> 100],
     [cid |-> "bafy-one", body |-> "one", tag |-> "discover", timestamp |-> 300],
     [cid |-> "bafy-one", body |-> "other", tag |-> "main", timestamp |-> 100],
     [cid |-> "bafy-two", body |-> "two", tag |-> "discover", timestamp |-> 200]}

\* posts.findIndex((post) => post.cid === target.cid && post.body === target.body), from
\* 0, and -1 where no post is found
findIndex(list, target) ==
    LET found == {i \in 1..Len(list) : list[i].cid = target.cid /\ list[i].body = target.body}
    IN  IF found = {} THEN -1
        ELSE (CHOOSE i \in found : \A j \in found : i <= j) - 1

removeFeedPost(list, target) ==
    LET index == findIndex(list, target)
    IN  IF index = -1 THEN [posts |-> list, removed |-> Null]
        ELSE [posts |-> SubSeq(list, 1, index) \o SubSeq(list, index + 2, Len(list)),
              removed |-> Some([post |-> list[index + 1], index |-> index])]

Min(a, b) == IF a <= b THEN a ELSE b

\* a variant of restoreFeedPost that puts the post at the end
restoreFeedPostAtEnd(list, snapshot) == Append(list, snapshot.post)

restoreFeedPost(list, snapshot) ==
    LET safeIndex == Max(0, Min(snapshot.index, Len(list)))
    IN  SubSeq(list, 1, safeIndex) \o <<snapshot.post>> \o SubSeq(list, safeIndex + 1, Len(list))

FeedLists == UNION {[1..n -> FeedPosts] : n \in 0..MaxFeedLength}

FeedInit ==
    /\ identity = Null
    /\ delegation = Null
    /\ revocationQueue = <<>>
    /\ revocationList = createRevocationList(0)
    /\ trustedRevocationIssuers = <<>>
    /\ auditLog = <<>>
    /\ failedFlushQueue = <<>>
    /\ posts \in FeedLists
    /\ safeReplayOnly = TRUE
    /\ unsafeReplayConfirmArmed = FALSE
    /\ unsafeReplayOverrideUntil = Null
    /\ timeTick = 0
    /\ hasTauriRuntime = FALSE
    /\ inFlight = <<>>
    /\ now = 0
    /\ clockMoves = 0
    /\ obs = NoObservation
    /\ hist = [lastRemoved |-> Null]

feedFrame == <<identity, delegation, revocationQueue, revocationList,
               trustedRevocationIssuers, auditLog, failedFlushQueue, safeReplayOnly,
               unsafeReplayConfirmArmed, unsafeReplayOverrideUntil, timeTick,
               hasTauriRuntime, inFlight, now, clockMoves>>

\* removePost of App: removeFeedPost(posts, target), the snapshot kept where there is one
RemovePost ==
    \E target \in FeedPosts :
        LET result == removeFeedPost(posts, target)
        IN  /\ posts' = result.posts
            /\ hist' = [lastRemoved |-> IF result.removed # Null THEN result.removed
                                        ELSE hist.lastRemoved]
            /\ obs' = [op |-> "remove", posts |-> posts, target |-> target,
                       result |-> result,
                       restored |-> IF result.removed = Null THEN Null
                                    ELSE Some(restoreFeedPost(result.posts,
                                                              result.removed[1]))]
            /\ UNCHANGED feedFrame

\* undoRemove of App: restoreFeedPost(posts, lastRemoved)
RestorePost ==
    /\ hist.lastRemoved # Null
    /\ posts' = restoreFeedPost(posts, hist.lastRemoved[1])
    /\ hist' = [lastRemoved |-> Null]
    /\ obs' = NoObservation
    /\ UNCHANGED feedFrame

FeedNext == RemovePost \/ RestorePost

SpecFeed == FeedInit /\ [][FeedNext]_vars

\* the places of a list, from 1, whose post has the cid and the body of target
Matching(list, target) ==
    {i \in 1..Len(list) : list[i].cid = target.cid /\ list[i].body = target.body}

\* C28: removeFeedPost of a list and a post that matches one of the list returns the
\* list without the first post that matches, that post and its index; restoreFeedPost
\* of that list and that snapshot is the list it was taken from; removeFeedPost for a
\* post that matches none returns an equal list and no snapshot.
RestoreUndoesRemove ==
    obs.op = "remove" =>
        LET matching == Matching(obs.posts, obs.target)
        IN  IF matching = {}
            THEN obs.result.posts = obs.posts /\ obs.result.removed = Null
            ELSE LET first == CHOOSE i \in matching : \A j \in matching : i <= j
                 IN  /\ obs.result.posts =
                            [i \in 1..(Len(obs.posts) - 1) |->
                                IF i < first THEN obs.posts[i] ELSE obs.posts[i + 1]]
                     /\ obs.result.removed =
                            Some([post |-> obs.posts[first], index |-> first - 1])
                     /\ obs.restored = Some(obs.posts)

\* the first of two posts of a list of three that match was removed
FirstOfTwoMatchesRemoved ==
    /\ obs.op = "remove"
    /\ Len(obs.posts) = MaxFeedLength
    /\ Cardinality(Matching(obs.posts, obs.target)) = 2
    /\ obs.result.removed # Null
    /\ obs.result.removed[1].post # obs.target

\* C27: an import of a text that is no JSON, or JSON that is no object, shows
\* "Import failed: invalid JSON." and leaves the active tab, the unread count, the
\* follows, the pins and the posts as they were; an import of an object takes each
\* field on its own: a negative unread count as 0, the flags that are true, and the
\* default posts where no post of the text is valid.
ImportRejectsWhatIsNoObject ==
    obs.op = "import" =>
        IF obs.raw.text # "json" \/ DOMAIN obs.raw.value # {"object"}
        THEN hist.actionNote = "Import failed: invalid JSON." /\ FeedState = obs.before
        ELSE LET object == obs.raw.value.object
             IN  /\ hist.actionNote = "Demo state imported."
                 /\ hist.unreadAlerts >= 0
                 /\ ("unreadAlerts" \in DOMAIN object /\ object.unreadAlerts = JsonNum(-2))
                        => hist.unreadAlerts = 0
                 /\ \A key \in hist.followedCids :
                        object.followedCids.object[key] = JsonBool(TRUE)
                 /\ \A key \in hist.pinnedCids :
                        object.pinnedCids.object[key] = JsonBool(TRUE)
                 /\ ("posts" \notin DOMAIN object \/ object.posts # JsonArr(<<ImportedPost>>))
                        => posts = DefaultPosts

\* C24: a grant of createUcanDelegation, a ledger built by createRevocationList,
\* addRevocationListEntry and signRevocationList, and a log built by
\* appendSecurityAuditEntry are read back from their serialized text equal to what was
\* written; a text that is not well formed is read as null by parseUcanDelegation, as
\* the empty ledger by parseRevocationList and as the empty log by
\* parseSecurityAuditLog.
ParseOfSerializeIsIdentity ==
    /\ obs.op = "roundTrip" => obs.back = obs.value
    /\ obs.op = "foreign" =>
           /\ obs.grant = Null
           /\ obs.list = createRevocationList(now)
           /\ obs.log = <<>>

\* a signed ledger of two entries was written and read back
SignedLedgerReadBack ==
    /\ obs.op = "roundTrip"
    /\ hist.value = "list"
    /\ obs.value.signature # Null
    /\ Len(obs.value.entries) >= 2

(***************************************************************************)
(* The compose publish flow of App together with the handlers that write   *)
(* what it reads: the delegation, the revocation list, the clock and the   *)
(* audit log.  The replay handlers add to the list only ids of delegations *)
(* that are no longer held.                                                *)
(***************************************************************************)
PublishInit == AppInit /\ hasTauriRuntime = FALSE

PublishNext ==
    \/ Publish
    \/ AdvanceClock
    \/ Tick
    \/ CreateDid
    \/ CreateUcan
    \/ RevokeUcan
    \/ MarkRevoked
    \/ ClearRevocationList
    \/ ClearAudit

SpecPublish == PublishInit /\ [][PublishNext]_vars

Next ==
    \/ AdvanceClock
    \/ Tick
    \/ CreateDid
    \/ ClearDid
    \/ CreateUcan
    \/ RevokeUcan
    \/ ToggleSafeReplayOnly
    \/ AllowUnsafeReplay
    \/ ReplayRevocations
    \/ ReplayWithoutRuntime
    \/ ReplayWithAnswer
    \/ ReplayRejected
    \/ RetryFailedFlushes
    \/ SignRevocationList
    \/ VerifyRevocationList
    \/ TrustIssuer
    \/ UntrustIssuer
    \/ VerifyUcan
    \/ MarkRevoked
    \/ ClearRevocationList
    \/ ClearAudit
    \/ ResetDemoData

Spec == Init /\ [][Next]_vars

(***************************************************************************)
(* Properties of the revocation list, checked under SpecLedger             *)
(***************************************************************************)
\* C1: verifyDelegationRevocation answers "revoked" exactly when the revocationId of
\* the grant is among the entries of the list, also when the grant has expired;
\* "expired" exactly when it is not listed and at >= expiresAt; "active" otherwise.
RevokedTakesPrecedence ==
    obs.op = "verifyDelegation" =>
        LET listed == \E i \in 1..Len(revocationList.entries) :
                          revocationList.entries[i].revocationId = obs.grant.revocationId
            due == obs.at >= obs.grant.expiresAt
        IN  /\ obs.result = "revoked" <=> listed
            /\ obs.result = "expired" <=> (~listed /\ due)
            /\ obs.result = "active" <=> (~listed /\ ~due)

\* a grant that is both listed and past its expiry has been verified
RevokedAndExpiredVerified ==
    /\ obs.op = "verifyDelegation"
    /\ obs.at >= obs.grant.expiresAt
    /\ isRevocationListed(revocationList, obs.grant.revocationId)
    /\ obs.result = "revoked"

\* C3: the list that addRevocationListEntry returns has signature = null, whatever
\* list it was given, signed or not.
AddEntryClearsSignature ==
    obs.op = "add" => revocationList.signature = Null

\* addRevocationListEntry has been applied to a list that carried a signature
AddedToSignedList ==
    /\ obs.op = "add"
    /\ obs.signedBefore
    /\ isRevocationListed(revocationList, obs.revocationId)

\* C4, as stated: after the reason of an entry of a signed list was changed, an entry
\* added or an entry removed without signing again, verifyRevocationListSignature
\* is false.
EditedListFailsVerification ==
    obs.op = "tamper" => ~verifyRevocationListSignature(revocationList)

\* C4, amended: ... verifyRevocationListSignature is false, provided the edit leaves
\* at least one entry in the list.
EditedNonEmptyListFailsVerification ==
    obs.op = "tamper" /\ Len(revocationList.entries) > 0 =>
        ~verifyRevocationListSignature(revocationList)

\* the reason of an entry of a signed list has been changed, and verification fails
EditedReasonRejected ==
    /\ obs.op = "tamper"
    /\ obs.edit = "reason"
    /\ revocationList.signature # Null
    /\ ~verifyRevocationListSignature(revocationList)

SignatureCheckedBeforeTrust ==
    obs.op = "policy" =>
        LET verified == verifyRevocationListSignature(revocationList)
            trusted == isRevocationListIssuerTrusted(revocationList, obs.trustedDidList)
        IN  /\ ~verified => obs.result = "invalid-signature"
            /\ obs.result = "untrusted-issuer" => verified /\ ~trusted
            /\ obs.result = "valid" => verified /\ trusted

\* the policy of a list with a trusted issuer and a signature that does not verify
\* has been asked for
InvalidSignatureOfTrustedIssuer ==
    /\ obs.op = "policy"
    /\ ~verifyRevocationListSignature(revocationList)
    /\ isRevocationListIssuerTrusted(revocationList, obs.trustedDidList)
    /\ obs.result = "invalid-signature"

\* C12: after any sequence of addRevocationListEntry calls from createRevocationList,
\* the entries hold at most one entry per revocationId, the entry of the id last added
\* carries the reason and revokedAt of that call, and the entries are ordered by
\* revokedAt descending.
AddEntryUpsertsAndSorts ==
    ~hist.edited =>
        LET entries == revocationList.entries
        IN  /\ \A i, j \in 1..Len(entries) :
                   i # j => entries[i].revocationId # entries[j].revocationId
            /\ \A i, j \in 1..Len(entries) :
                   i < j => entries[i].revokedAt >= entries[j].revokedAt
            /\ obs.op = "add" =>
                   \E i \in 1..Len(entries) :
                       entries[i] = [revocationId |-> trim(obs.revocationId),
                                     revokedAt |-> obs.revokedAt,
                                     reason |-> trim(obs.reason)]

\* an id already listed has been added again, to a list of two entries that only
\* addRevocationListEntry and signRevocationList have built
ListedIdAddedAgain ==
    /\ ~hist.edited
    /\ obs.op = "add"
    /\ obs.listedBefore
    /\ Len(revocationList.entries) = 2

(***************************************************************************)
(* Properties of the offline queue, checked under SpecQueue                *)
(***************************************************************************)
\* C7: after any sequence of enqueueOfflineRevocation calls from the empty queue, the
\* queue holds at most one entry per revocationId, the entry kept for an id is the
\* first one enqueued for it, and the entries are in the order of first insertion.
EnqueueKeepsFirstEntry ==
    LET calls == hist.calls
        queue == revocationQueue
        First(id) == CHOOSE k \in 1..Len(calls) :
                         /\ calls[k].revocationId = id
                         /\ \A m \in 1..(k - 1) : calls[m].revocationId # id
    IN  /\ \A i, j \in 1..Len(queue) : i # j => queue[i].revocationId # queue[j].revocationId
        /\ {queue[i].revocationId : i \in 1..Len(queue)}
               = {calls[k].revocationId : k \in 1..Len(calls)}
        /\ \A i \in 1..Len(queue) : queue[i] = calls[First(queue[i].revocationId)]
        /\ \A i, j \in 1..Len(queue) :
               i < j => First(queue[i].revocationId) < First(queue[j].revocationId)

\* an id already in the queue has been enqueued again with another reason or time
SameIdEnqueuedAgain ==
    /\ obs.op = "enqueue"
    /\ \E i \in 1..Len(obs.queue) :
           /\ obs.queue[i].revocationId = obs.entry.revocationId
           /\ obs.queue[i] # obs.entry
    /\ revocationQueue = obs.queue

\* C13: for maxBatch >= 1, replayOfflineRevocations answers with replayed the first
\* min(maxBatch, |queue|) entries of the queue in its order and with remaining the
\* rest, so that replayed followed by remaining is the queue and, for
\* maxBatch >= |queue|, replayed is the queue and remaining is empty; the queue it was
\* given is as it was.
ReplaySplitsQueueInOrder ==
    obs.op = "replay" /\ obs.maxBatch >= 1 =>
        LET size == IF obs.maxBatch < Len(obs.queue) THEN obs.maxBatch ELSE Len(obs.queue)
        IN  /\ obs.result.replayed = SubSeq(obs.queue, 1, size)
            /\ obs.result.remaining = SubSeq(obs.queue, size + 1, Len(obs.queue))
            /\ obs.result.replayed \o obs.result.remaining = obs.queue
            /\ obs.maxBatch >= Len(obs.queue) =>
                   obs.result.replayed = obs.queue /\ obs.result.remaining = <<>>
            /\ revocationQueue = obs.queue

\* a queue of two entries has been split with maxBatch 1
QueueSplitInTwo ==
    /\ obs.op = "replay"
    /\ obs.maxBatch = 1
    /\ Len(obs.queue) = 2
    /\ Len(obs.result.replayed) = 1
    /\ Len(obs.result.remaining) = 1

(***************************************************************************)
(* Properties of the failed-flush retries, checked under SpecRetry         *)
(***************************************************************************)
\* C10: upsertFailedRevocationRetries sets, for each id in failedIds, retryCount to
\* the retryCount of the record that the list held for it + 1, or to 1 when it held
\* none, and nextRetryAt to now + baseDelayMs * max(1, retryCount).
FailureRaisesRetryCountByOne ==
    obs.op = "upsert" =>
        \A k \in 1..Len(obs.failedIds) :
            LET revocationId == trim(obs.failedIds[k])
            IN  revocationId # "" =>
                    \E i \in 1..Len(failedFlushQueue) :
                        LET retry == failedFlushQueue[i]
                        IN  /\ retry.revocationId = revocationId
                            /\ retry.retryCount = RetryCountOf(obs.current, revocationId) + 1
                            /\ retry.nextRetryAt
                                   = obs.at + obs.baseDelayMs * Max(1, retry.retryCount)

\* the record that a list of retries holds for an id
RetryOf(retries, revocationId) ==
    retries[CHOOSE i \in 1..Len(retries) : retries[i].revocationId = revocationId]

\* the ids that two successive upsertFailedRevocationRetries calls both listed
ListedTwice ==
    IF obs.op = "upsert" /\ obs.last # Null
    THEN ({trim(obs.failedIds[k]) : k \in 1..Len(obs.failedIds)}
          \cap {trim(obs.last[1].failedIds[k]) : k \in 1..Len(obs.last[1].failedIds)}) \ {""}
    ELSE {}

\* C11, as stated: of two successive upsertFailedRevocationRetries calls that list the
\* same id, whatever their now and baseDelayMs, the second leaves the record of the id
\* with a greater retryCount and a greater nextRetryAt than the first.
SecondFailureIsLater ==
    \A revocationId \in ListedTwice :
        /\ RetryOf(failedFlushQueue, revocationId).retryCount
               > RetryOf(obs.current, revocationId).retryCount
        /\ RetryOf(failedFlushQueue, revocationId).nextRetryAt
               > RetryOf(obs.current, revocationId).nextRetryAt

\* C11, amended: ... the second leaves the record with a greater retryCount, and with
\* a greater nextRetryAt when its now is not earlier and its baseDelayMs, positive, is
\* not smaller than those of the first call.
SecondFailureIsLaterWhenClockAndDelayHold ==
    \A revocationId \in ListedTwice :
        /\ RetryOf(failedFlushQueue, revocationId).retryCount
               > RetryOf(obs.current, revocationId).retryCount
        /\ (obs.at >= obs.last[1].at /\ obs.baseDelayMs >= obs.last[1].baseDelayMs
                /\ obs.last[1].baseDelayMs > 0)
               => RetryOf(failedFlushQueue, revocationId).nextRetryAt
                      > RetryOf(obs.current, revocationId).nextRetryAt

\* an id has failed in two successive calls with the same now and baseDelayMs
FailedTwiceAtSameTime ==
    /\ ListedTwice # {}
    /\ obs.at = obs.last[1].at
    /\ obs.baseDelayMs = obs.last[1].baseDelayMs

\* the ids that a list of ids names: each trimmed, the blank ones left out
Named(idList) == {trim(idList[k]) : k \in 1..Len(idList)} \ {""}

\* C14: the list that upsertFailedRevocationRetries returns holds the records of the
\* ids that failedIds does not name as they were, and one updated record for each id
\* that failedIds names, one record per id, sorted ascending by nextRetryAt;
\* removeFailedRetries returns the records whose id flushedIds does not name, as they
\* were and in their order.  An id is named by a list when the list holds it, trimmed.
UpsertKeepsOthersAndRemoveDropsFlushed ==
    LET before == IF obs.op \in {"upsert", "remove"} THEN obs.current ELSE <<>>
        after == failedFlushQueue
    IN  /\ obs.op = "upsert" =>
               /\ \A i, j \in 1..Len(after) :
                      i # j => after[i].revocationId # after[j].revocationId
               /\ {after[i].revocationId : i \in 1..Len(after)}
                      = {before[i].revocationId : i \in 1..Len(before)}
                            \cup Named(obs.failedIds)
               /\ \A i \in 1..Len(before) :
                      before[i].revocationId \notin Named(obs.failedIds)
                          => \E j \in 1..Len(after) : after[j] = before[i]
               /\ \A j \in 1..Len(after) :
                      after[j].revocationId \in Named(obs.failedIds)
                          => /\ after[j].failedAt = obs.at
                             /\ after[j].retryCount
                                    > RetryCountOf(before, after[j].revocationId)
               /\ \A i, j \in 1..Len(after) :
                      i < j => after[i].nextRetryAt <= after[j].nextRetryAt
        /\ obs.op = "remove" =>
               after = SelectSeqBy(before,
                           {i \in 1..Len(before) :
                                before[i].revocationId \notin Named(obs.flushedIds)})

\* one id of two on record has failed again: its record is updated, the other is kept
OneOfTwoRecordsUpdated ==
    /\ obs.op = "upsert"
    /\ Len(obs.current) = 2
    /\ Len(failedFlushQueue) = 2
    /\ Cardinality(Named(obs.failedIds)) = 1
    /\ \E i \in 1..2 : obs.current[i].revocationId \notin Named(obs.failedIds)

(***************************************************************************)
(* Properties of the audit log, checked under SpecAudit                    *)
(***************************************************************************)
\* C15: after any sequence of appendSecurityAuditEntry calls with one maxEntries >= 1,
\* the log is no longer than maxEntries, the entry appended last is first, the
\* entries kept are in the reverse of the order they were appended in, and the ones
\* dropped are the oldest.
AuditLogKeepsNewestFirst ==
    LET appended == hist.appended
        kept == IF Len(appended) < hist.maxEntries THEN Len(appended) ELSE hist.maxEntries
    IN  /\ Len(auditLog) <= hist.maxEntries
        /\ Len(auditLog) = kept
        /\ \A i \in 1..Len(auditLog) : auditLog[i] = appended[Len(appended) - i + 1]

\* more entries than maxEntries have been appended to a log that keeps two or more
OldestAuditEntryDropped ==
    /\ hist.maxEntries >= 2
    /\ Len(hist.appended) > hist.maxEntries
    /\ Len(auditLog) = hist.maxEntries
    /\ auditLog[1] = obs.entry
    /\ hist.appended[1] # auditLog[Len(auditLog)]

(***************************************************************************)
(* Properties of the compose publish flow, checked under SpecPublish       *)
(***************************************************************************)
\* C16: publishDraft adds no post while a delegation is held that the revocation list
\* lists or that has expired at the time of the call: the posts are as they were, and
\* for a draft that is not blank a ucan.verified entry is the newest of the audit log.
\* A blank draft ends the handler before it looks at the delegation.
PublishBlockedForRevokedOrExpired ==
    (/\ obs.op = "publish"
     /\ delegation # Null
     /\ \/ isRevocationListed(revocationList, delegation[1].revocationId)
        \/ now >= delegation[1].expiresAt)
        => /\ posts = obs.posts
           /\ trim(obs.draft) # "" =>
                  /\ Len(auditLog) = Len(obs.log) + 1
                  /\ auditLog[1].event = "ucan.verified"
                  /\ SubSeq(auditLog, 2, Len(auditLog)) = obs.log

\* a draft has been published while the delegation held had expired, before the
\* interval tick took the delegation away: it was blocked
ExpiredPublishBlocked ==
    /\ obs.op = "publish"
    /\ trim(obs.draft) # ""
    /\ delegation # Null
    /\ now >= delegation[1].expiresAt
    /\ ~isRevocationListed(revocationList, delegation[1].revocationId)
    /\ posts = obs.posts
    /\ auditLog # obs.log

(***************************************************************************)
(* Properties of the replay and retry handlers of App, checked under Spec  *)
(***************************************************************************)
\* C2: an entry leaves the offline queue only after the flush has confirmed its id: in
\* every reachable state, an id that was enqueued and is no longer in the queue has
\* been returned in some flushedIds.
QueueLeftOnlyWhenFlushed ==
    \A revocationId \in hist.enqueued :
        (\A i \in 1..Len(revocationQueue) : revocationQueue[i].revocationId # revocationId)
            => revocationId \in hist.flushed

\* C8: across Replay Revocations and Retry Failed Flushes, the retryCount recorded for
\* an id at a failed flush is greater than the one recorded at its failure before.
RetryCountGrowsWithEachFailure ==
    obs.op = "flushed" /\ obs.answer # Null =>
        \A i \in 1..Len(obs.answer[1].failedIds) :
            LET revocationId == obs.answer[1].failedIds[i]
            IN  obs.lastFailCount[revocationId] > 0 =>
                    RetryCountOf(failedFlushQueue, revocationId)
                        > obs.lastFailCount[revocationId]

\* C9: after a flush outcome was applied, every id that was sent and is in neither
\* flushedIds nor failedIds is still in the offline queue or has a failed-retry
\* record.
UnansweredIdsStayTracked ==
    obs.op = "flushed" /\ obs.answer # Null =>
        \A k \in 1..Len(obs.sent) :
            LET revocationId == obs.sent[k]
                answered == \/ \E i \in 1..Len(obs.answer[1].flushedIds) :
                                   obs.answer[1].flushedIds[i] = revocationId
                            \/ \E i \in 1..Len(obs.answer[1].failedIds) :
                                   obs.answer[1].failedIds[i] = revocationId
            IN  ~answered =>
                    \/ \E i \in 1..Len(revocationQueue) :
                           revocationQueue[i].revocationId = revocationId
                    \/ \E i \in 1..Len(failedFlushQueue) :
                           failedFlushQueue[i].revocationId = revocationId

(***************************************************************************)
(* The replay gate of the profile tab: the handlers of App in a browser    *)
(* without the Tauri runtime, where flushRevocationQueueCommand resolves   *)
(* to null, with every Replay Revocations click told apart in obs.         *)
(***************************************************************************)
GateInit == AppInit /\ hasTauriRuntime = FALSE

ReplayClick == ReplayRevocationsClick(TRUE)

GateNext ==
    \/ ReplayClick
    \/ ReplayWithoutRuntime
    \/ ToggleSafeReplayOnly
    \/ AllowUnsafeReplay
    \/ AdvanceClock
    \/ Tick
    \/ CreateDid
    \/ ClearDid
    \/ CreateUcan
    \/ RevokeUcan
    \/ MarkRevoked
    \/ SignRevocationList
    \/ VerifyRevocationList
    \/ TrustIssuer
    \/ UntrustIssuer
    \/ ClearRevocationList
    \/ ClearAudit
    \/ ResetDemoData

SpecGate == GateInit /\ [][GateNext]_vars

(***************************************************************************)
(* A Replay Revocations handler waiting for its flush while the delegation *)
(* is revoked or expires.  App mounts with an offline queue of one entry,  *)
(* read from storage, so that there is something to replay before the      *)
(* delegation of the run is revoked.                                       *)
(***************************************************************************)
StoredQueue ==
    enqueueOfflineRevocation(<<>>, createOfflineRevocationEntry(FreshRevocationId(0),
                                                                "manual profile revoke", 0))

FlightInit ==
    /\ identity = Null
    /\ delegation = Null
    /\ revocationQueue = StoredQueue
    /\ revocationList = createRevocationList(0)
    /\ trustedRevocationIssuers = <<>>
    /\ auditLog = <<>>
    /\ failedFlushQueue = <<>>
    /\ posts = DefaultPosts
    /\ safeReplayOnly = TRUE
    /\ unsafeReplayConfirmArmed = FALSE
    /\ unsafeReplayOverrideUntil = Null
    /\ timeTick = 0
    /\ hasTauriRuntime \in BOOLEAN
    /\ inFlight = <<>>
    /\ now = 0
    /\ clockMoves = 0
    /\ obs = NoObservation
    /\ hist = [NoHistory EXCEPT !.enqueued = {FreshRevocationId(0)}]

FlightNext ==
    \/ CreateDid
    \/ CreateUcan
    \/ RevokeUcan
    \/ AdvanceClock
    \/ Tick
    \/ ClearAudit
    \/ ReplayRevocations
    \/ ReplayWithoutRuntime
    \/ ReplayWithAnswer
    \/ ReplayRejected

SpecFlight == FlightInit /\ [][FlightNext]_vars

(***************************************************************************)
(* The handlers of App that write the revocation list, together with the   *)
(* ones that sign it and trust its issuer: the policy status of the list   *)
(* after each of them.                                                     *)
(***************************************************************************)
PolicyNext ==
    \/ CreateDid
    \/ CreateUcan
    \/ RevokeUcan
    \/ AdvanceClock
    \/ Tick
    \/ ClearAudit
    \/ ReplayRevocations
    \/ ReplayWithoutRuntime
    \/ ReplayWithAnswer
    \/ ReplayRejected
    \/ MarkRevoked
    \/ SignRevocationList
    \/ TrustIssuer

SpecPolicy == FlightInit /\ [][PolicyNext]_vars

\* the handlers of the flight with the timer that keeps firing: setInterval calls its
\* callback every 30 s for as long as App is mounted, whatever the handlers do in
\* between, and Clear Audit makes room for the entry the effect records (the length
\* of the audit log is bounded here by MaxAudit, which stops Tick while the log is full)
SpecExpiry == FlightInit /\ [][FlightNext]_vars /\ SF_vars(Tick) /\ WF_vars(ClearAudit)

(***************************************************************************)
(* The load of the persisted security state at mount and the effect that   *)
(* persists it.  hist holds securityHydrated, the payload the load returns *)
(* (null without the Tauri runtime), the texts of localStorage and the     *)
(* texts saved by set_security_state.  The handlers of these runs leave    *)
(* the offline queue, the trusted issuers and the failed-retry list empty, *)
(* so their texts are null throughout and are left out.                    *)
(***************************************************************************)
\* JSON.stringify(identity), as the value JSON.parse reads back from it
serializeIdentityRecord(record) ==
    [text |-> "json",
     value |-> JsonObj([did |-> JsonStr(record.did), createdAt |-> JsonStr(record.createdAt)])]

parseIdentityRecord(raw) ==
    LET parsed == raw.value
        didRaw == Property(parsed, "did")
        createdRaw == Property(parsed, "createdAt")
        did == IF IsString(didRaw) THEN didRaw.string ELSE ""
        createdAt == IF IsString(createdRaw) THEN createdRaw.string ELSE ""
    IN  IF raw.text # "json" THEN Null
        ELSE IF ~isObject(parsed) THEN Null
        ELSE IF ~isValidDidKey(did) \/ Len(trim(createdAt)) = 0 THEN Null
        ELSE Some([did |-> did, createdAt |-> createdAt])

\* null: what getItem returns for a key that was removed, and a field of the payload
\* that holds no text
NullText == [text |-> "null", value |-> Undefined]

\* identityJson, delegationJson, revocationListJson and auditLogJson of the persist effect
SecurityJson(id, ucan, list, log) ==
    [identityJson |-> IF id # Null THEN serializeIdentityRecord(id[1]) ELSE NullText,
     delegationJson |-> IF ucan # Null THEN serializeUcanDelegation(ucan[1]) ELSE NullText,
     revocationListJson |-> IF Len(list.entries) > 0 THEN serializeRevocationList(list)
                            ELSE NullText,
     auditLogJson |-> IF Len(log) > 0 THEN serializeSecurityAuditLog(log) ELSE NullText]

\* an effect that persists whether or not the load has completed
PersistEffectUnguarded(h, id, ucan, list, log) ==
    [h EXCEPT !.localStorage = SecurityJson(id, ucan, list, log),
              !.saved = IF hasTauriRuntime THEN Some(SecurityJson(id, ucan, list, log))
                        ELSE @]

\* the effect on the security state and securityHydrated: if (!securityHydrated) return;
\* then setItem or removeItem for each key and saveSecurityStateCommand, which invokes
\* nothing without the runtime
PersistEffect(h, id, ucan, list, log) ==
    IF ~h.securityHydrated THEN h
    ELSE [h EXCEPT !.localStorage = SecurityJson(id, ucan, list, log),
                   !.saved = IF hasTauriRuntime THEN Some(SecurityJson(id, ucan, list, log))
                             ELSE @]

\* what an earlier session left behind: nothing, or an identity, a delegation, a list
\* of one entry and an audit log of one entry
StoredSessions ==
    LET id == createIdentityRecord(IdentityDid, 0)
        ucan == createUcanDelegation(IdentityDid, AudienceDid,
                    <<[with |-> IdentityDid, can |-> "feed/publish"]>>,
                    UcanTtlSeconds, 0, FreshRevocationId(0), "nonce")
        list == addRevocationListEntry(createRevocationList(0), FreshRevocationId(0),
                                       "manual verification marker", 0)
        log == appendSecurityAuditEntry(<<>>,
                   createSecurityAuditEntry("ucan.verified",
                       "marked " \o FreshRevocationId(0) \o " as revoked", 0, "Zx9"),
                   AuditMaxEntries)
    IN  {SecurityJson(Null, Null, createRevocationList(0), <<>>),
         SecurityJson(Some(id), Some(ucan), list, log)}

\* App mounts: the state is read from localStorage by the useState initialisers, and
\* the load of the security state is on its way
HydrateInit ==
    /\ hasTauriRuntime \in BOOLEAN
    /\ \E stored \in StoredSessions :
       \E payload \in IF hasTauriRuntime THEN {Null} \cup {Some(p) : p \in StoredSessions}
                      ELSE {Null} :
           /\ identity = parseIdentityRecord(stored.identityJson)
           /\ delegation = parseUcanDelegation(stored.delegationJson)
           /\ revocationList = parseRevocationList(stored.revocationListJson, 0)
           /\ auditLog = parseSecurityAuditLog(stored.auditLogJson)
           /\ hist = [securityHydrated |-> FALSE, payload |-> payload,
                      localStorage |-> stored, saved |-> Null, ucans |-> 0]
    /\ revocationQueue = <<>>
    /\ trustedRevocationIssuers = <<>>
    /\ failedFlushQueue = <<>>
    /\ posts = DefaultPosts
    /\ safeReplayOnly = TRUE
    /\ unsafeReplayConfirmArmed = FALSE
    /\ unsafeReplayOverrideUntil = Null
    /\ timeTick = 0
    /\ inFlight = <<>>
    /\ now = 0
    /\ clockMoves = 0
    /\ obs = NoObservation

hydrateFrame ==
    <<revocationQueue, trustedRevocationIssuers, failedFlushQueue, safeReplayOnly,
      unsafeReplayConfirmArmed, unsafeReplayOverrideUntil, timeTick, hasTauriRuntime, posts,
      inFlight, now, clockMoves>>

\* a render with this security state, and the persist effect after it
Rendered(op, h, id, ucan, list, log) ==
    /\ identity' = id
    /\ delegation' = ucan
    /\ revocationList' = list
    /\ auditLog' = log
    /\ hist' = PersistEffect(h, id, ucan, list, log)
    /\ obs' = [op |-> op]
    /\ UNCHANGED hydrateFrame

\* without the runtime loadSecurityStateCommand is settled before any event is handled
HandlersRun == hasTauriRuntime \/ hist.securityHydrated

\* the effect that loads the security state, after its await
HydrationCompletes ==
    /\ ~hist.securityHydrated
    /\ LET h == [hist EXCEPT !.securityHydrated = TRUE]
           payload == hist.payload
       IN  IF payload # Null
           THEN Rendered("hydrated", h,
                         parseIdentityRecord(payload[1].identityJson),
                         parseUcanDelegation(payload[1].delegationJson),
                         parseRevocationList(payload[1].revocationListJson, now),
                         parseSecurityAuditLog(payload[1].auditLogJson))
           ELSE Rendered("hydrated", h, identity, delegation, revocationList, auditLog)

CreateDidPersisted ==
    LET nextIdentity == createIdentityRecord(IdentityDid, now)
    IN  /\ HandlersRun
        /\ CanRecord
        /\ Rendered("handler", hist, Some(nextIdentity), delegation, revocationList,
                    recordSecurityEvent(auditLog, "identity.created",
                        "did issued " \o formatDidHandle(nextIdentity.did)))

ClearDidPersisted ==
    /\ HandlersRun
    /\ CanRecord
    /\ Rendered("handler", hist, Null, Null, revocationList,
                recordSecurityEvent(auditLog, "identity.cleared",
                                    "identity and delegation cleared"))

CreateUcanPersisted ==
    LET nextDelegation ==
            createUcanDelegation(identity[1].did, AudienceDid,
                                 <<[with |-> identity[1].did, can |-> "feed/publish"]>>,
                                 UcanTtlSeconds, now, FreshRevocationId(hist.ucans + 1), "nonce")
    IN  /\ HandlersRun
        /\ identity # Null
        /\ hist.ucans < MaxUcans
        /\ CanRecord
        /\ Rendered("handler", [hist EXCEPT !.ucans = @ + 1], identity, Some(nextDelegation),
                    revocationList,
                    recordSecurityEvent(auditLog, "ucan.created",
                        "delegated publish to " \o formatDidHandle(AudienceDid)))

MarkRevokedPersisted ==
    /\ HandlersRun
    /\ delegation # Null
    /\ CanRecord
    /\ Rendered("handler", hist, identity, delegation,
                addRevocationListEntry(revocationList, delegation[1].revocationId,
                                       "manual verification marker", now),
                recordSecurityEvent(auditLog, "ucan.verified",
                    "marked " \o delegation[1].revocationId \o " as revoked"))

ClearAuditPersisted ==
    /\ HandlersRun
    /\ Rendered("handler", hist, identity, delegation, revocationList, <<>>)

\* resetDemoState: the state is set to its defaults and the keys are removed from
\* localStorage by the handler itself
ResetPersisted ==
    /\ HandlersRun
    /\ Rendered("reset",
                [hist EXCEPT !.localStorage =
                     SecurityJson(Null, Null, createRevocationList(now), <<>>)],
                Null, Null, createRevocationList(now), <<>>)

HydrateNext ==
    \/ HydrationCompletes
    \/ CreateDidPersisted
    \/ ClearDidPersisted
    \/ CreateUcanPersisted
    \/ MarkRevokedPersisted
    \/ ClearAuditPersisted
    \/ ResetPersisted

SpecHydrate == HydrateInit /\ [][HydrateNext]_vars

(***************************************************************************)
(* Lists without entries, with any issuerDid and signature a record can    *)
(* hold, judged against trusted issuers.                                   *)
(***************************************************************************)
EmptyListIssuers ==
    {Null, Some(""), Some("did:web:amy"), Some(IdentityDid), Some(AudienceDid)}

EmptyListSignatures == {Null, Some(""), Some("sig-00000000"), Some("forged")}

EmptyListTrusted == {<<>>, <<AudienceDid>>, <<IdentityDid>>, <<"did:web:amy", " ">>}

EmptyListInit ==
    /\ identity = Null
    /\ delegation = Null
    /\ revocationQueue = <<>>
    /\ \E updatedAt \in LedgerTimes, issuerDid \in EmptyListIssuers,
          signature \in EmptyListSignatures :
           revocationList = [version |-> "1.1", updatedAt |-> updatedAt,
                             issuerDid |-> issuerDid, signature |-> signature,
                             entries |-> <<>>]
    /\ trustedRevocationIssuers = <<>>
    /\ auditLog = <<>>
    /\ failedFlushQueue = <<>>
    /\ posts = DefaultPosts
    /\ safeReplayOnly = TRUE
    /\ unsafeReplayConfirmArmed = FALSE
    /\ unsafeReplayOverrideUntil = Null
    /\ timeTick = 0
    /\ inFlight = <<>>
    /\ now = 0
    /\ clockMoves = 0
    /\ hasTauriRuntime = FALSE
    /\ obs = NoObservation
    /\ hist = NoHistory

\* verifyRevocationListSignature(list) and verifyRevocationListPolicy(list, trustedDidList)
VerifyEmptyList ==
    \E trustedDidList \in EmptyListTrusted :
        /\ obs' = [op |-> "verifyEmpty", trustedDidList |-> trustedDidList,
                   signature |-> verifyRevocationListSignature(revocationList),
                   policy |-> verifyRevocationListPolicy(revocationList, trustedDidList)]
        /\ UNCHANGED <<revocationList, ledgerFrame, hist>>

EmptyListNext ==
    \/ VerifyEmptyList

SpecEmptyList == EmptyListInit /\ [][EmptyListNext]_vars

(***************************************************************************)
(* Properties of the replay gate, checked under SpecGate                   *)
(***************************************************************************)
\* the confirmation is armed by nothing but a Replay Revocations click that was blocked
ArmedOnlyByBlockedClick ==
    (~unsafeReplayConfirmArmed /\ unsafeReplayConfirmArmed')
        => (obs'.op = "replayClick" /\ obs'.outcome = "armed")

SafeReplayOnlyDeniesUnsafeReplay ==
    [][(obs'.op = "replayClick" /\ safeReplayOnly /\ ReplayGated
            /\ ~unsafeReplayOverrideActive)
        => /\ obs'.outcome = "denied"
           /\ UNCHANGED <<inFlight, revocationQueue, revocationList, failedFlushQueue>>]_vars

\* a click was denied while there were queued revocations to replay
UnsafeReplayDeniedWithQueue ==
    /\ obs.op = "replayClick" /\ obs.outcome = "denied"
    /\ Len(revocationQueue) > 0

(***************************************************************************)
(* Properties of delegations, checked under SpecGrant                      *)
(***************************************************************************)
\* C19: createUcanDelegation is deterministic in its inputs: two calls with the same
\* issuer, audience, capabilities, ttlSeconds, issuedAt and revocationId return grants
\* that are the same in every field.
CreateUcanDelegationIsDeterministic ==
    obs.op = "issue" /\ obs.last # Null /\ obs.last[1].params = obs.params
        => obs.last[1].result = obs.result

\* the invariants of a grant: valid issuer and audience ids, at least one capability
\* with trimmed non-empty fields, a lifetime of 60 s to 31,536,000 s, a revocationId
\* and a nonce that are not empty
GrantInvariant(grant) ==
    /\ isValidDidKey(grant.issuerDid) /\ isValidDidKey(grant.audienceDid)
    /\ Len(grant.capabilities) >= 1
    /\ \A i \in 1..Len(grant.capabilities) :
           /\ Len(grant.capabilities[i].with) > 0 /\ Len(grant.capabilities[i].can) > 0
           /\ trim(grant.capabilities[i].with) = grant.capabilities[i].with
           /\ trim(grant.capabilities[i].can) = grant.capabilities[i].can
    /\ grant.expiresAt > grant.issuedAt
    /\ grant.expiresAt - grant.issuedAt >= 60 * 1000
    /\ (grant.expiresAt - grant.issuedAt) \div 1000 <= 31536000
    /\ Len(grant.revocationId) > 0 /\ Len(grant.nonce) > 0

\* C20: every grant that createUcanDelegation returns or parseUcanDelegation reads from
\* stored text keeps the invariants of a grant; stored text that breaks one of them
\* parses to null.
YieldedGrantsKeepInvariant ==
    obs.op \in {"issue", "parse"} /\ obs.result # Null => GrantInvariant(obs.result[1])

\* the ttlSeconds a call of createUcanDelegation asked for, the default included
AskedTtl(params) == ttlSecondsOrDefault(params.ttlSeconds)

\* the arguments other than ttlSeconds are ones createUcanDelegation accepts
OtherArgumentsValid(params) ==
    /\ isValidDidKey(params.issuerDid) /\ isValidDidKey(params.audienceDid)
    /\ Len(params.capabilities) > 0
    /\ \A i \in 1..Len(params.capabilities) :
           /\ Len(trim(params.capabilities[i].with)) > 0
           /\ Len(trim(params.capabilities[i].can)) > 0
    /\ Len(trim(params.revocationId)) > 0

\* C21: for every whole ttlSeconds from 60 to 31536000, 3600 where it is omitted, and
\* every issuedAt, createUcanDelegation returns a grant with
\* expiresAt = issuedAt + ttlSeconds * 1000.
ExpiresAtIsIssuedAtPlusTtl ==
    obs.op = "issue" /\ OtherArgumentsValid(obs.params)
        /\ AskedTtl(obs.params) >= 60 /\ AskedTtl(obs.params) <= 31536000
        => /\ obs.result # Null
           /\ obs.result[1].issuedAt = obs.params.issuedAt
           /\ obs.result[1].expiresAt = obs.params.issuedAt + AskedTtl(obs.params) * 1000

\* a grant was created without ttlSeconds at a time other than 0
IssuedWithDefaultTtl ==
    /\ obs.op = "issue" /\ obs.result # Null
    /\ obs.params.ttlSeconds = Null /\ obs.params.issuedAt > 0

\* C22: createUcanDelegation returns no grant and throws for a ttlSeconds below 60 or
\* above 31536000, for an invalid issuer or audience id, for an empty capability list
\* and for a capability with a field that is empty after trimming.
IssueRefusesBadArguments ==
    obs.op = "issue"
        /\ (\/ AskedTtl(obs.params) < 60 \/ AskedTtl(obs.params) > 31536000
            \/ ~isValidDidKey(obs.params.issuerDid)
            \/ ~isValidDidKey(obs.params.audienceDid)
            \/ Len(obs.params.capabilities) = 0
            \/ \E i \in 1..Len(obs.params.capabilities) :
                   \/ Len(trim(obs.params.capabilities[i].with)) = 0
                   \/ Len(trim(obs.params.capabilities[i].can)) = 0)
        => obs.result = Null

\* a call was refused for nothing but its audience
IssueRefusedForAudience ==
    /\ obs.op = "issue" /\ obs.result = Null
    /\ ~isValidDidKey(obs.params.audienceDid) /\ isValidDidKey(obs.params.issuerDid)
    /\ Len(obs.params.capabilities) > 0 /\ AskedTtl(obs.params) = 60

\* C23: isUcanDelegationExpired is true exactly when now >= expiresAt, and
\* isUcanDelegationExpiringSoon exactly when 0 < expiresAt - now <= threshold, so no
\* grant is expired and expiring soon at the same now.
ExpiredAndExpiringSoonAreExact ==
    obs.op = "expiry" =>
        /\ obs.expired <=> obs.at >= obs.expiresAt
        /\ obs.soon <=> (0 < obs.expiresAt - obs.at /\ obs.expiresAt - obs.at <= obs.thresholdMs)
        /\ ~(obs.expired /\ obs.soon)

\* a grant was asked about at its expiry instant, with a threshold that is not 0
AskedAtExpiryInstant ==
    obs.op = "expiry" /\ obs.at = obs.expiresAt /\ obs.thresholdMs > 0 /\ obs.expired

\* C26: every step that changes the identity, the delegation, the entries or the
\* signature of the revocation list, the trusted issuers or the offline queue appends
\* an entry to the audit log in that same step.
SecurityTransitionsAreAudited ==
    [][(\/ identity' # identity
        \/ delegation' # delegation
        \/ revocationList'.entries # revocationList.entries
        \/ revocationList'.signature # revocationList.signature
        \/ trustedRevocationIssuers' # trustedRevocationIssuers
        \/ revocationQueue' # revocationQueue)
       => Len(auditLog') = Len(auditLog) + 1]_vars

\* C29: in every list that createRevocationList, addRevocationListEntry and
\* signRevocationList have built, a signature that is not null verifies: it is the
\* signature of the payload of the entries, the updatedAt and the issuerDid that the
\* list holds.
StoredSignatureIsOfCurrentList ==
    (~hist.edited /\ revocationList.signature # Null) =>
        /\ verifyRevocationListSignature(revocationList)
        /\ revocationList.issuerDid # Null
        /\ revocationList.signature =
               Some("sig-" \o fnv1aHexOnce(createRevocationListSigningPayload(
                                               revocationList, revocationList.issuerDid[1])))

\* a list of as many entries as a list may hold, built by addRevocationListEntry and
\* signRevocationList only, has just been signed
FullListSigned ==
    /\ ~hist.edited
    /\ obs.op = "sign"
    /\ Len(revocationList.entries) = MaxLedgerEntries
    /\ revocationList.signature # Null

\* C30: when a Replay Revocations handler has applied the outcome of its flush, every
\* id that was in the offline queue just before and that the handler had not sent,
\* such as the id of a delegation revoked or expired while the flush was awaited, is
\* still in the offline queue.
EnqueuedDuringFlushStaysQueued ==
    obs.op = "flushed" =>
        \A i \in 1..Len(obs.queued) :
            (\A j \in 1..Len(obs.sent) : obs.sent[j] # obs.queued[i])
                => \E k \in 1..Len(revocationQueue) :
                       revocationQueue[k].revocationId = obs.queued[i]

\* the trusted issuer sets a list is judged against: none, the ones of App, the issuer
\* of the list alone, and the ones the calls on the list on its own are given
TrustedSetsFor(list) ==
    {<<>>, trustedRevocationIssuers} \cup LedgerTrusted
    \cup (IF list.issuerDid = Null THEN {} ELSE {<<list.issuerDid[1]>>})

InvalidForEveryTrustedSet(list) ==
    \A trusted \in TrustedSetsFor(list) :
        verifyRevocationListPolicy(list, trusted) = "invalid-signature"

\* C31: a step that adds an entry to the revocation list, the entries of Replay
\* Revocations for flushed ids among them, leaves a list without a signature for which
\* verifyRevocationListPolicy answers "invalid-signature" whatever the trusted issuers
\* are, and the answer is the same in every state where the list has entries and no
\* signature, that is until signRevocationList is applied.
AddedEntryInvalidatesPolicy ==
    /\ [](/\ (Len(revocationList.entries) > 0 /\ revocationList.signature = Null)
                 => InvalidForEveryTrustedSet(revocationList)
          /\ (obs.op = "flushed" /\ obs.answer # Null /\ Len(obs.answer[1].flushedIds) > 0)
                 => /\ revocationList.signature = Null
                    /\ revocationListPolicyStatus = "invalid-signature")
    /\ [][(/\ revocationList'.entries # revocationList.entries
           /\ Len(revocationList'.entries) >= Len(revocationList.entries))
          => /\ revocationList'.signature = Null
             /\ InvalidForEveryTrustedSet(revocationList')]_vars

\* Replay Revocations has added the entry of a flushed id to a list that its trusted
\* issuer had signed
FlushedIdAddedToTrustedList ==
    /\ obs.op = "flushed"
    /\ obs.answer # Null
    /\ Len(obs.answer[1].flushedIds) > 0
    /\ Len(revocationList.entries) >= 2
    /\ revocationList.issuerDid # Null
    /\ \E i \in 1..Len(trustedRevocationIssuers) :
           trustedRevocationIssuers[i] = revocationList.issuerDid[1]

\* the ids a list is asked about: the ones given to addRevocationListEntry, as given
\* and as stored, and the one of a grant
ListedProbeIds ==
    LedgerIds \cup {trim(id) : id \in LedgerIds} \cup GrantIds

\* C32: a step of addRevocationListEntry or signRevocationList keeps every listed id
\* listed, so a grant that verifyDelegationRevocation reports "revoked" against the
\* list is reported "revoked", before and after its expiry, against the list of the
\* next state as well, and so against every list derived by further such steps.
RevocationIsPermanent ==
    [][obs'.op \in {"add", "sign"} =>
          \A id \in ListedProbeIds :
              isRevocationListed(revocationList, id) =>
                  /\ isRevocationListed(revocationList', id)
                  /\ \A expiresAt \in LedgerTimes, at \in LedgerTimes :
                         LET grant == [revocationId |-> id, expiresAt |-> expiresAt]
                         IN  /\ verifyDelegationRevocation(grant, revocationList, at)
                                    = "revoked"
                             /\ verifyDelegationRevocation(grant, revocationList', at)
                                    = "revoked"]_vars

\* addRevocationListEntry has added an id that was not listed to a list holding
\* another id, and both are listed
ListedIdKeptByLaterEntry ==
    /\ ~hist.edited
    /\ obs.op = "add"
    /\ ~obs.listedBefore
    /\ Len(revocationList.entries) = 2
    /\ \A id \in LedgerIds : isRevocationListed(revocationList, id)

\* the delegation with this revocationId is the one held
Holds(id) == delegation # Null /\ delegation[1].revocationId = id

ConfirmationIsCleared ==
    /\ [](unsafeReplayConfirmArmed
             => ~safeReplayOnly /\ revocationListPolicyStatus # "valid")
    /\ [](obs.op = "replayClick" /\ obs.outcome \in {"issued", "empty"}
             => ~unsafeReplayConfirmArmed)
    /\ [][(\/ safeReplayOnly' # safeReplayOnly
            \/ /\ unsafeReplayOverrideUntil' # unsafeReplayOverrideUntil
               /\ unsafeReplayOverrideUntil' # Null)
            => ~unsafeReplayConfirmArmed']_vars

NoWriteBeforeHydration ==
    [][~hist'.securityHydrated
          => /\ hist'.localStorage = hist.localStorage
             /\ hist'.saved = hist.saved]_vars

\* C35, amended: ... apart from Reset Demo Data, whose handler removes the keys from
\* localStorage itself; set_security_state is invoked by no step before the load has
\* completed.
NoWriteBeforeHydrationButReset ==
    [][~hist'.securityHydrated
          => /\ obs'.op # "reset" => hist'.localStorage = hist.localStorage
             /\ hist'.saved = hist.saved]_vars

\* a handler has changed the security state before the load has completed, and
\* localStorage holds what it held
ChangedBeforeHydration ==
    /\ ~hist.securityHydrated
    /\ obs.op = "handler"
    /\ hist.localStorage.identityJson # NullText
    /\ hist.localStorage # SecurityJson(identity, delegation, revocationList, auditLog)

\* C36: a list without entries passes verifyRevocationListSignature and is "valid" for
\* verifyRevocationListPolicy, whatever its issuerDid and signature are and whatever
\* the trusted issuers are, none among them.
EmptyListIsValid ==
    /\ Len(revocationList.entries) = 0
    /\ obs.op = "verifyEmpty" => obs.signature = TRUE /\ obs.policy = "valid"

\* a list without entries whose issuer is no did:key and whose signature is forged was
\* judged against no trusted issuer
ForgedEmptyListJudged ==
    /\ obs.op = "verifyEmpty"
    /\ obs.trustedDidList = <<>>
    /\ revocationList.issuerDid = Some("did:web:amy")
    /\ revocationList.signature = Some("forged")
    /\ obs.policy = "valid"

\* C37: in every state no two entries of the offline queue share a revocationId, the
\* states in which the queue was read from stored text by parseOfflineRevocationQueue
\* among them.
QueueIsKeyedByRevocationId ==
    \A i \in 1..Len(revocationQueue), j \in 1..Len(revocationQueue) :
        i # j => revocationQueue[i].revocationId # revocationQueue[j].revocationId

\* C38: one upsertFailedRevocationRetries call leaves each id that failedIds names, as
\* given or with white space around it, once or more than once, with the retryCount
\* the list held for it + 1, or 1 when it held none; a blank id gets no record, and
\* the ids of the records are those held before and those named.
RetryCountRisesOncePerId ==
    obs.op = "upsert" =>
        /\ \A revocationId \in Named(obs.failedIds) :
               RetryCountOf(failedFlushQueue, revocationId)
                   = RetryCountOf(obs.current, revocationId) + 1
        /\ {failedFlushQueue[i].revocationId : i \in 1..Len(failedFlushQueue)}
               = {obs.current[i].revocationId : i \in 1..Len(obs.current)}
                 \cup Named(obs.failedIds)

\* C39: replayOfflineRevocations answers with replayed the first maxBatch entries of the
\* queue and remaining the others, in their order, also where maxBatch is 0 or less:
\* replayed is then empty and remaining the queue.
ZeroBatchReplaysNothing ==
    obs.op = "replay" =>
        /\ obs.result.replayed \o obs.result.remaining = obs.queue
        /\ obs.maxBatch > 0 => Len(obs.result.replayed) = Min(obs.maxBatch, Len(obs.queue))
        /\ obs.maxBatch <= 0 => obs.result.replayed = <<>> /\ obs.result.remaining = obs.queue

====
